---- MODULE Spec2Model ----
(***************************************************************************)
(* Centsible: the per-user Firestore document and the data-access          *)
(* functions of FirestoreContext.js, the session provider of               *)
(* AuthContext.js, the registration handler of Login.js and the route      *)
(* guard of App.js.                                                        *)
(***************************************************************************)
EXTENDS Integers, Sequences, FiniteSets, TLC

\* ------------------------------------------------------------------------
\* Bounds of the model
\* ------------------------------------------------------------------------
\* largest value Date.now() takes in a behaviour
MaxClock == 2
\* number of data-access calls issued in a behaviour
MaxCalls == 3
\* number of data-access calls that can be in flight at once
NumSlots == 2
\* the longest list a document holds when the gets are applied to it
MaxLen == 3

\* ------------------------------------------------------------------------
\* Values
\* ------------------------------------------------------------------------
\* the uid the views pass to every data-access call (currentUser.uid)
Uid == "u1"

\* the uids the authentication service hands out
Uids == {"u1", "u2"}

\* the three list fields of a user document
Lists == {"income", "expenses", "goals"}

Slots == 1..NumSlots

\* the records the views submit: formData of Paycheck, AddPurchase, AddGoal
Records(L) ==
  CASE L = "income"   -> {[source |-> "Job", amount |-> 4],
                          [source |-> "Gift", amount |-> 5]}
    [] L = "expenses" -> {[name |-> "Coffee", amount |-> 4, category |-> "Dining"],
                          [name |-> "Pen", amount |-> 5, category |-> ""]}
    [] L = "goals"    -> {[name |-> "Car", amount |-> 4],
                          [name |-> "Trip", amount |-> 5]}

\* the ids a caller can name: every timestamp string of the clock's range
Ids == {ToString(t) : t \in 1..MaxClock}

\* the patches the views submit on an edit: the edited amount alone, or the
\* whole form, which handleEdit filled from the element and so carries its id
Patches(id) == {[amount |-> 9], [amount |-> 9, id |-> id]}

\* object spread {...a, ...b}, and the field merge of a merge write
Merge(a, b) ==
  [k \in DOMAIN a \cup DOMAIN b |-> IF k \in DOMAIN b THEN b[k] ELSE a[k]]

\* a document that does not exist (docSnap.exists() is false)
NoDoc == [exists |-> FALSE, data |-> <<>>]

\* what a get returns: null or an array
RetNull == [isNull |-> TRUE, val |-> <<>>]
RetList(arr) == [isNull |-> FALSE, val |-> arr]

\* the num argument of a get: "all" or a number
All == [all |-> TRUE, n |-> 0]
Num(n) == [all |-> FALSE, n |-> n]

Min(a, b) == IF a < b THEN a ELSE b

\* arr.slice(0, n) for n >= 0
slice(arr, n) == SubSeq(arr, 1, Min(n, Len(arr)))

\* ------------------------------------------------------------------------
\* The document store (firebase/firestore)
\* ------------------------------------------------------------------------
\* setDoc(ref, data): the document becomes exactly data
setDoc(doc, data) == [exists |-> TRUE, data |-> data]

\* a merge write that replaces the whole document
setDocMerge_overwrite(doc, data) == [exists |-> TRUE, data |-> data]

\* setDoc(ref, data, {merge: true}): only the named fields are written, the
\* document is created when it is absent
setDocMerge(doc, data) == [exists |-> TRUE, data |-> Merge(doc.data, data)]

\* an updateDoc that replaces the whole document by the named fields
updateDoc_replace(doc, data) == [exists |-> TRUE, data |-> data]

\* updateDoc(ref, data) on an existing document: only the named fields
updateDoc(doc, data) == [exists |-> TRUE, data |-> Merge(doc.data, data)]

\* arrayUnion that takes two elements for equal when their ids are equal
arrayUnion_byId(doc, L, e) ==
  LET arr == IF L \in DOMAIN doc.data THEN doc.data[L] ELSE <<>>
  IN  IF \E i \in 1..Len(arr) : arr[i].id = e.id THEN arr ELSE Append(arr, e)

\* arrayUnion(e) applied to a field: e is appended unless an equal element
\* is already in the array; an absent field counts as the empty array
arrayUnion(doc, L, e) ==
  LET arr == IF L \in DOMAIN doc.data THEN doc.data[L] ELSE <<>>
  IN  IF \E i \in 1..Len(arr) : arr[i] = e THEN arr ELSE Append(arr, e)

\* docSnap.data().income || []
ListOf(doc, L) == IF L \in DOMAIN doc.data THEN doc.data[L] ELSE <<>>

\* a one-field object {[L]: arr}
Field(L, arr) == [k \in {L} |-> arr]

\* ------------------------------------------------------------------------
\* FirestoreContext.js: the pure part of each data-access function
\* ------------------------------------------------------------------------
\* createUser: the document written at registration (the server timestamp
\* is kept as a token)
createUser(email) == [email |-> email, created |-> "serverTimestamp"]

\* addIncome: the element sent to arrayUnion, t being Date.now()
addIncome(incomeData, t) ==
  Merge(incomeData, [id |-> ToString(t), active |-> TRUE])

\* addExpenses
addExpenses(expenseData, t) == Merge(expenseData, [id |-> ToString(t)])

\* addUserGoal
addUserGoal(userGoal, t) == Merge(userGoal, [id |-> ToString(t)])

\* getIncome
getIncome(doc, num) ==
  IF doc.exists
  THEN IF "income" \notin DOMAIN doc.data \/ Len(doc.data["income"]) = 0
       THEN RetNull
       ELSE RetList(IF num.all THEN doc.data["income"]
                    ELSE slice(doc.data["income"], num.n))
  ELSE RetNull

\* String.prototype.toLowerCase on the category strings of the model
toLowerCase(s) ==
  CASE s = "Dining" -> "dining"
    [] s = "DINING" -> "dining"
    [] s = "Travel" -> "travel"
    [] s = "TRAVEL" -> "travel"
    [] OTHER -> s

\* a getExpenses that compares the categories as they are written
getExpenses_caseSensitive(doc, num, category) ==
  IF doc.exists
  THEN LET expensesArr == ListOf(doc, "expenses")
           filtered ==
             IF category # ""
             THEN SelectSeq(expensesArr,
                    LAMBDA expense :
                      /\ "category" \in DOMAIN expense
                      /\ expense.category # ""
                      /\ expense.category = category)
             ELSE expensesArr
       IN  RetList(IF num.all THEN filtered ELSE slice(filtered, num.n))
  ELSE RetNull

\* getExpenses
getExpenses(doc, num, category) ==
  IF doc.exists
  THEN LET expensesArr == ListOf(doc, "expenses")
           filtered ==
             IF category # ""
             THEN SelectSeq(expensesArr,
                    LAMBDA expense :
                      /\ "category" \in DOMAIN expense
                      /\ expense.category # ""
                      /\ toLowerCase(expense.category) = toLowerCase(category))
             ELSE expensesArr
       IN  RetList(IF num.all THEN filtered ELSE slice(filtered, num.n))
  ELSE RetNull

\* a getUserGoals that answers an empty list with null, as getIncome does
getUserGoals_nullOnEmpty(doc, num) ==
  IF doc.exists
  THEN IF "goals" \notin DOMAIN doc.data \/ Len(doc.data["goals"]) = 0
       THEN RetNull
       ELSE RetList(IF num.all THEN doc.data["goals"]
                    ELSE slice(doc.data["goals"], num.n))
  ELSE RetNull

\* getUserGoals
getUserGoals(doc, num) ==
  IF doc.exists
  THEN LET goalsArr == ListOf(doc, "goals")
       IN  RetList(IF num.all THEN goalsArr ELSE slice(goalsArr, num.n))
  ELSE RetNull

\* updateIncome: the array written back, computed from the array read
updateIncome(incomeArr, incomeId, updatedData) ==
  [i \in 1..Len(incomeArr) |->
     IF incomeArr[i].id = incomeId
     THEN Merge(incomeArr[i], updatedData) ELSE incomeArr[i]]

\* updateExpense
updateExpense(expensesArr, expenseId, updatedData) ==
  [i \in 1..Len(expensesArr) |->
     IF expensesArr[i].id = expenseId
     THEN Merge(expensesArr[i], updatedData) ELSE expensesArr[i]]

\* updateUserGoal that inserts the patch when no goal has the id
updateUserGoal_upsert(goalsArr, goalId, updatedData) ==
  IF \E i \in 1..Len(goalsArr) : goalsArr[i].id = goalId
  THEN [i \in 1..Len(goalsArr) |->
          IF goalsArr[i].id = goalId
          THEN Merge(goalsArr[i], updatedData) ELSE goalsArr[i]]
  ELSE Append(goalsArr, Merge(updatedData, [id |-> goalId]))

\* updateUserGoal
updateUserGoal(goalsArr, goalId, updatedData) ==
  [i \in 1..Len(goalsArr) |->
     IF goalsArr[i].id = goalId
     THEN Merge(goalsArr[i], updatedData) ELSE goalsArr[i]]

\* deleteIncome
deleteIncome(incomeArr, incomeId) ==
  SelectSeq(incomeArr, LAMBDA income : income.id # incomeId)

\* deleteExpense with the filter's test inverted
deleteExpense_inverted(expensesArr, expenseId) ==
  SelectSeq(expensesArr, LAMBDA expense : expense.id = expenseId)

\* deleteExpense
deleteExpense(expensesArr, expenseId) ==
  SelectSeq(expensesArr, LAMBDA expense : expense.id # expenseId)

\* a deleteUserGoal that moves the last goal into the place of the removed one
deleteUserGoal_swapRemove(goalsArr, goalId) ==
  IF \E i \in 1..Len(goalsArr) : goalsArr[i].id = goalId
  THEN LET i == CHOOSE j \in 1..Len(goalsArr) : goalsArr[j].id = goalId
           n == Len(goalsArr)
       IN  SubSeq([goalsArr EXCEPT ![i] = goalsArr[n]], 1, n - 1)
  ELSE goalsArr

\* deleteUserGoal
deleteUserGoal(goalsArr, goalId) ==
  SelectSeq(goalsArr, LAMBDA goal : goal.id # goalId)

\* the three families, selected by the list they work on
addElement(L, data, t) ==
  CASE L = "income"   -> addIncome(data, t)
    [] L = "expenses" -> addExpenses(data, t)
    [] L = "goals"    -> addUserGoal(data, t)

getAll(L, doc) ==
  CASE L = "income"   -> getIncome(doc, All)
    [] L = "expenses" -> getExpenses(doc, All, "")
    [] L = "goals"    -> getUserGoals(doc, All)

updateList(L, arr, id, updatedData) ==
  CASE L = "income"   -> updateIncome(arr, id, updatedData)
    [] L = "expenses" -> updateExpense(arr, id, updatedData)
    [] L = "goals"    -> updateUserGoal(arr, id, updatedData)

deleteList(L, arr, id) ==
  CASE L = "income"   -> deleteIncome(arr, id)
    [] L = "expenses" -> deleteExpense(arr, id)
    [] L = "goals"    -> deleteUserGoal(arr, id)

\* ------------------------------------------------------------------------
\* Login.js: the local checks of handleRegister
\* ------------------------------------------------------------------------
\* a password is the sequence of its characters
UpperCase ==
  {"A", "B", "C", "D", "E", "F", "G", "H", "I", "J", "K", "L", "M", "N", "O",
   "P", "Q", "R", "S", "T", "U", "V", "W", "X", "Y", "Z"}
Digits == {"0", "1", "2", "3", "4", "5", "6", "7", "8", "9"}

\* the shortest password handleRegister accepts
MinPasswordLength == 8

\* /[A-Z]/.test(password)
testUpper(password) == \E i \in 1..Len(password) : password[i] \in UpperCase

\* /\d/.test(password)
testDigit(password) == \E i \in 1..Len(password) : password[i] \in Digits

\* the first condition with its length test off by one
weakPassword_offByOne(password) ==
  \/ Len(password) <= MinPasswordLength
  \/ ~testUpper(password)
  \/ ~testDigit(password)

\* the first condition without its digit test
weakPassword_noDigitTest(password) ==
  \/ Len(password) < MinPasswordLength
  \/ ~testUpper(password)

\* the first condition of handleRegister: the password is refused
weakPassword(password) ==
  \/ Len(password) < MinPasswordLength
  \/ ~testUpper(password)
  \/ ~testDigit(password)

\* the notifications handleRegister and handleLogin set
NoNotification == [open |-> FALSE, message |-> "", severity |-> "info"]
WeakPasswordNotification ==
  [open |-> TRUE,
   message |-> "Password must be at least 8 characters long, include an uppercase letter, and a number.",
   severity |-> "error"]
MismatchNotification ==
  [open |-> TRUE, message |-> "Passwords do not match.", severity |-> "error"]
CreatedNotification ==
  [open |-> TRUE, message |-> "Account created successfully.",
   severity |-> "success"]
RegistrationFailedNotification(errorMessage) ==
  [open |-> TRUE, message |-> "Registration failed: " \o errorMessage,
   severity |-> "error"]
LoggedInNotification ==
  [open |-> TRUE, message |-> "Logged in successfully.", severity |-> "success"]
LoginFailedNotification(errorMessage) ==
  [open |-> TRUE, message |-> "Login failed: " \o errorMessage,
   severity |-> "error"]

\* the values typed into the login form
Emails == {"a@b.com", "c@d.com"}
Passwords ==
  { <<"A", "b", "c", "d", "e", "f", "1", "2">>,
    <<"a", "b", "c", "d", "e", "f", "1", "2">>,
    <<"A", "b", "c", "d", "e", "f", "g", "h">>,
    <<"A", "b", "c", "d", "e", "1", "2">> }
ConfirmPasswords ==
  { <<"A", "b", "c", "d", "e", "f", "1", "2">>,
    <<"A", "b", "c", "d", "e", "1", "2">> }

\* the messages of the errors the backends raise
EmailInUse == "auth/email-already-in-use"
AuthUnavailable == "auth/network-request-failed"
WrongCredential == "auth/invalid-credential"
StoreUnavailable == "unavailable"

\* ------------------------------------------------------------------------
\* App.js: the routes and the guard
\* ------------------------------------------------------------------------
\* currentUser when nobody is signed in
NoUser == "null"

GuardedPaths ==
  {"/dashboard", "/profile", "/spendings", "/add-purchase", "/add-goal",
   "/income"}

\* the paths a visitor can ask for; "/nowhere" stands for every unknown path
Paths == {"/", "/login", "/nowhere"} \cup GuardedPaths

\* the element of each protected route
GuardedView(p) ==
  CASE p = "/dashboard"    -> "Dashboard"
    [] p = "/profile"      -> "UserProfile"
    [] p = "/spendings"    -> "Spending"
    [] p = "/add-purchase" -> "AddPurchase"
    [] p = "/add-goal"     -> "AddGoal"
    [] p = "/income"       -> "AddPaycheck"

GuardedViews == {GuardedView(p) : p \in GuardedPaths}

\* what one render of a route yields: a redirect (to) or a view, and the
\* hasSeenSplash flag of localStorage after it
Shown(view, seen) == [to |-> "", seen |-> seen, view |-> view]
Redirect(to, seen) == [to |-> to, seen |-> seen, view |-> "none"]

\* ProtectedRoute without the splash redirect
ProtectedRoute_noSplash(currentUser, hasSeenSplash, children) ==
  IF currentUser = NoUser
  THEN Redirect("/login", hasSeenSplash)
  ELSE Shown(children, hasSeenSplash)

\* ProtectedRoute without the check of currentUser
ProtectedRoute_noGuard(currentUser, hasSeenSplash, children) ==
  IF ~hasSeenSplash
  THEN Redirect("/", TRUE)
  ELSE Shown(children, hasSeenSplash)

\* ProtectedRoute redirecting to the splash screen without setting the flag
ProtectedRoute_flagNotSet(currentUser, hasSeenSplash, children) ==
  IF currentUser = NoUser
  THEN Redirect("/login", hasSeenSplash)
  ELSE IF ~hasSeenSplash
       THEN Redirect("/", hasSeenSplash)
       ELSE Shown(children, hasSeenSplash)

\* ProtectedRoute
ProtectedRoute(currentUser, hasSeenSplash, children) ==
  IF currentUser = NoUser
  THEN Redirect("/login", hasSeenSplash)
  ELSE IF ~hasSeenSplash
       THEN Redirect("/", TRUE)
       ELSE Shown(children, hasSeenSplash)

\* routes whose catch-all redirects to a path that no route matches
Routes_catchAllUnmatched(p, currentUser, hasSeenSplash) ==
  CASE p = "/"             -> Shown("LandingPage", hasSeenSplash)
    [] p = "/login"        -> Shown("Login", hasSeenSplash)
    [] p \in GuardedPaths  ->
         IF currentUser = NoUser
         THEN Redirect("/login", hasSeenSplash)
         ELSE IF ~hasSeenSplash
              THEN Redirect("/", TRUE)
              ELSE Shown(GuardedView(p), hasSeenSplash)
    [] OTHER               -> Redirect("/home", hasSeenSplash)

\* Routes of App: the element matched by the path
Routes(p, currentUser, hasSeenSplash) ==
  CASE p = "/"             -> Shown("LandingPage", hasSeenSplash)
    [] p = "/login"        -> Shown("Login", hasSeenSplash)
    [] p \in GuardedPaths  ->
         ProtectedRoute(currentUser, hasSeenSplash, GuardedView(p))
    [] OTHER               -> Redirect("/", hasSeenSplash)

\* number of redirects followed in one navigation
MaxRedirects == 3

\* a navigation to p: the routes are rendered and every <Navigate> followed
\* until a view is shown
RECURSIVE Render(_, _, _, _)
Render(p, currentUser, hasSeenSplash, fuel) ==
  LET r == Routes(p, currentUser, hasSeenSplash)
  IN  IF r.to = "" \/ fuel = 0
      THEN [path |-> p, seen |-> r.seen, view |-> r.view]
      ELSE Render(r.to, currentUser, r.seen, fuel - 1)

\* ------------------------------------------------------------------------
\* The functions of the two providers and the handlers of the views
\* ------------------------------------------------------------------------
\* no error
NoError == [name |-> "none", message |-> ""]

\* the error object a rejected backend call carries
FirebaseError(message) == [name |-> "FirebaseError", message |-> message]

\* a catch clause that throws a new error made from its label
rethrow_wrapped(label, e) ==
  [log |-> [label |-> label, error |-> e],
   thrown |-> [name |-> "Error", message |-> label]]

\* the catch clause of every provider function:
\* catch (e) { console.error(label, e); throw e; }
rethrow(label, e) ==
  [log |-> [label |-> label, error |-> e], thrown |-> e]

\* the functions FirestoreProvider and AuthProvider hand to the views
DataFunctions ==
  {"createUser", "updateUser", "getUserData",
   "addIncome", "getIncome", "updateIncome", "deleteIncome",
   "addExpenses", "getExpenses", "updateExpense", "deleteExpense",
   "addUserGoal", "getUserGoals", "updateUserGoal", "deleteUserGoal"}
SessionFunctions == {"signup", "login", "logout"}

\* what a function does
FnKind(fn) ==
  CASE fn \in {"addIncome", "addExpenses", "addUserGoal"}          -> "add"
    [] fn \in {"getIncome", "getExpenses", "getUserGoals"}         -> "get"
    [] fn \in {"updateIncome", "updateExpense", "updateUserGoal"}  -> "update"
    [] fn \in {"deleteIncome", "deleteExpense", "deleteUserGoal"}  -> "delete"
    [] OTHER                                                       -> fn

\* the list field a function works on
FnList(fn) ==
  CASE fn \in {"addIncome", "getIncome", "updateIncome", "deleteIncome"}        -> "income"
    [] fn \in {"addExpenses", "getExpenses", "updateExpense", "deleteExpense"}  -> "expenses"
    [] fn \in {"addUserGoal", "getUserGoals", "updateUserGoal", "deleteUserGoal"} -> "goals"
    [] OTHER                                                                    -> "none"

\* the backend call a function awaits first
FirstAwait(fn) ==
  CASE fn \in SessionFunctions                            -> "auth"
    [] FnKind(fn) \in {"createUser", "updateUser", "add"} -> "setDoc"
    [] OTHER                                              -> "getDoc"

\* the first argument of console.error in the function's catch clause
ErrorLabel(fn) ==
  CASE fn = "createUser"     -> "Error adding user document: "
    [] fn = "updateUser"     -> "Error updating user document: "
    [] fn = "getUserData"    -> "Error retrieving user data: "
    [] fn = "addIncome"      -> "Error adding income data: "
    [] fn = "getIncome"      -> "Error retrieving user income: "
    [] fn = "updateIncome"   -> "Error updating income: "
    [] fn = "deleteIncome"   -> "Error deleting income: "
    [] fn = "addExpenses"    -> "Error adding expense data: "
    [] fn = "getExpenses"    -> "Error retrieving expenses: "
    [] fn = "updateExpense"  -> "Error updating expense: "
    [] fn = "deleteExpense"  -> "Error deleting expense: "
    [] fn = "addUserGoal"    -> "Error adding user goal: "
    [] fn = "getUserGoals"   -> "Error retrieving user goals: "
    [] fn = "updateUserGoal" -> "Error updating goal: "
    [] fn = "deleteUserGoal" -> "Error deleting goal: "
    [] fn = "signup"         -> "Error during signup:"
    [] fn = "login"          -> "Error during login:"
    [] fn = "logout"         -> "Error during logout:"

\* a getUserData that answers an absent document with an empty object
getUserData_empty(doc) ==
  IF doc.exists THEN [isNull |-> FALSE, val |-> doc.data]
  ELSE [isNull |-> FALSE, val |-> <<>>]

\* getUserData
getUserData(doc) ==
  IF doc.exists THEN [isNull |-> FALSE, val |-> doc.data] ELSE RetNull

\* a list get as the views call it: get(currentUser.uid, "all")
getList(fn, doc) == getAll(FnList(fn), doc)

\* a handler of a view: the provider functions it awaits in turn, and whether
\* the calls stand in a try block with a catch clause
Handler(v, name, fns, catches) ==
  [view |-> v, name |-> name, fns |-> fns, catches |-> catches]

\* the handlers of the three list views: the fetch on mount, handleSubmit
\* when adding and when editing, handleDelete; none has a try block
ListViews == {"AddPurchase", "AddPaycheck", "AddGoal"}

ViewList(v) ==
  CASE v = "AddPurchase" -> "expenses"
    [] v = "AddPaycheck" -> "income"
    [] v = "AddGoal"     -> "goals"

AddFn(L) ==
  CASE L = "income" -> "addIncome" [] L = "expenses" -> "addExpenses"
    [] L = "goals" -> "addUserGoal"
GetFn(L) ==
  CASE L = "income" -> "getIncome" [] L = "expenses" -> "getExpenses"
    [] L = "goals" -> "getUserGoals"
UpdateFn(L) ==
  CASE L = "income" -> "updateIncome" [] L = "expenses" -> "updateExpense"
    [] L = "goals" -> "updateUserGoal"
DeleteFn(L) ==
  CASE L = "income" -> "deleteIncome" [] L = "expenses" -> "deleteExpense"
    [] L = "goals" -> "deleteUserGoal"

fetchList(v) == Handler(v, "fetch", <<GetFn(ViewList(v))>>, FALSE)
handleSubmitAdd(v) ==
  Handler(v, "handleSubmit", <<AddFn(ViewList(v)), GetFn(ViewList(v))>>, FALSE)
handleSubmitEdit(v) ==
  Handler(v, "handleSubmit", <<UpdateFn(ViewList(v)), GetFn(ViewList(v))>>, FALSE)
handleDelete(v) ==
  Handler(v, "handleDelete", <<DeleteFn(ViewList(v)), GetFn(ViewList(v))>>, FALSE)

\* UserProfile
fetchUserData == Handler("UserProfile", "fetchUserData", <<"getUserData">>, TRUE)
handleSubmitProfile ==
  Handler("UserProfile", "handleSubmit", <<"updateUser">>, TRUE)

\* Dashboard: the three fetches of fetchData, here settling in the order
\* of the array handed to Promise.all (fetchResolves and fetchRejects let
\* them settle in any order)
fetchData ==
  Handler("Dashboard", "fetchData",
          <<"getExpenses", "getUserGoals", "getIncome">>, TRUE)

\* Login and Sidebar, as calls of the session provider
registerHandler ==
  Handler("Login", "handleRegister", <<"signup", "createUser">>, TRUE)
loginHandler == Handler("Login", "handleLogin", <<"login">>, TRUE)
logoutHandler == Handler("Sidebar", "handleLogout", <<"logout">>, TRUE)

\* the notification a handler's catch clause shows; handleLogout's only logs
FetchFailedPopup ==
  [open |-> TRUE, message |-> "Failed to fetch user data.", severity |-> "error"]
UpdateFailedPopup ==
  [open |-> TRUE, message |-> "Failed to update profile. Please try again.",
   severity |-> "error"]
ProfileUpdatedPopup ==
  [open |-> TRUE, message |-> "Profile updated successfully.",
   severity |-> "success"]
FetchDataFailedNotification ==
  [open |-> TRUE, message |-> "Failed to fetch data.", severity |-> "error"]

\* the forms UserProfile submits: userData, with the picture when one was chosen
ProfileForms ==
  {[name |-> "Ann", username |-> "ann", dob |-> "2000-01-01"],
   [name |-> "Ann", username |-> "", dob |-> "",
    profilePicture |-> "blob:1"]}

\* the form state UserProfile shows for the data of a document
userDataOf(data) ==
  [k \in {"name", "username", "dob"} |->
     IF k \in DOMAIN data THEN data[k] ELSE ""]

\* the last element of an array a get returned, as the Dashboard shows it
lastOf(ret) ==
  IF ~ret.isNull /\ Len(ret.val) > 0 THEN <<ret.val[Len(ret.val)]>> ELSE <<>>

\* ------------------------------------------------------------------------
\* State
\* ------------------------------------------------------------------------
VARIABLES
  docs,     \* the users collection of the store: per uid, its document
  ver,      \* per list: the number of writes the store has applied to it
  now,      \* Date.now()
  calls,    \* number of data-access calls issued so far
  ops,      \* per slot: the data-access call in flight or last completed
  accounts,       \* the accounts of the authentication service
  authUser,       \* auth.currentUser: the uid signed in at the service
  currentUser,    \* AuthProvider's currentUser state
  loading,        \* AuthProvider's loading state
  path,           \* the location of the router
  target,         \* the path last asked for, by the visitor or navigate()
  view,           \* the view on screen, "none" while nothing is rendered
  hasSeenSplash,  \* localStorage's hasSeenSplash item is set
  handler,        \* the handleRegister or handleLogin call of the Login view
  signingOut,     \* a handleLogout call awaits logout()
  notification,   \* the Login view's notification state
  vcall,          \* the view handler under way and the provider call it awaits
  ui,             \* the React state of the view on screen
  console,        \* what console.error has logged
  unhandled       \* the errors that left a view handler uncaught

storeVars == <<docs, ver, now, calls, ops>>

sessionVars == <<accounts, authUser, currentUser, loading>>

routeVars == <<path, target, view, hasSeenSplash>>

loginVars == <<handler, signingOut, notification>>

viewVars == <<vcall, ui, console, unhandled>>

appVars == <<sessionVars, routeVars, loginVars, viewVars>>

vars == <<storeVars, appVars>>

\* a slot that holds no call
\* pc: position in the async function; data: the record or patch passed in;
\* elem: the element an add sends; snap: the array an update or delete read;
\* before: what a get returned when the document was read; rver, wver: the
\* list's write count at the read and after the write
Idle == [pc |-> "idle", kind |-> "none", list |-> "none", id |-> "",
         data |-> <<>>, elem |-> <<>>, snap |-> <<>>, before |-> RetNull,
         rver |-> 0, wver |-> 0]

\* no handler of the Login view has been called
NoHandler == [pc |-> "idle", kind |-> "none", email |-> "", password |-> <<>>,
              confirmPassword |-> <<>>, uid |-> NoUser]

\* no view handler is under way
\* pc: the backend call awaited; fn: the provider function called; rest: the
\* functions the handler calls after it; snap: the array an update or delete
\* read; ret: what the last function returned; rets: what the functions of
\* the handler returned so far; raised: the error the backend rejected with;
\* error: the error the function threw to the handler
NoCall ==
  [pc |-> "idle", view |-> "none", handler |-> "none", catches |-> FALSE,
   fn |-> "none", rest |-> <<>>, uid |-> NoUser, id |-> "", data |-> <<>>,
   elem |-> <<>>, snap |-> <<>>, ret |-> RetNull, rets |-> <<>>,
   raised |-> NoError, error |-> NoError, outcome |-> "none"]

\* the state a view starts with when it is mounted
InitialUi ==
  [items |-> <<>>, popup |-> NoNotification, loading |-> TRUE,
   profile |-> [name |-> "", username |-> "", dob |-> ""],
   cards |-> [L \in Lists |-> <<>>]]

\* no view handler has run
NoViewActivity ==
  /\ vcall = NoCall
  /\ ui = InitialUi
  /\ console = <<>>
  /\ unhandled = NoError

\* the application before it is opened in a browser
NobodyThere ==
  /\ accounts = {}
  /\ authUser = NoUser
  /\ currentUser = NoUser
  /\ loading = TRUE
  /\ path = "/"
  /\ target = "/"
  /\ view = "none"
  /\ hasSeenSplash = FALSE
  /\ handler = NoHandler
  /\ signingOut = FALSE
  /\ notification = NoNotification
  /\ NoViewActivity

\* a slot a new call can take: nothing in flight in it
Free(s) == ops[s].pc \in {"idle", "done"}

\* ------------------------------------------------------------------------
\* Actions of the data-access layer
\* ------------------------------------------------------------------------
\* the wall clock advances
Tick ==
  /\ now < MaxClock
  /\ now' = now + 1
  /\ UNCHANGED <<docs, ver, calls, ops, appVars>>

\* addIncome / addExpenses / addUserGoal up to the await: the id is taken
\* from the clock and the merge write is issued
addCall(s, L, data) ==
  /\ Free(s)
  /\ calls < MaxCalls
  /\ calls' = calls + 1
  /\ ops' = [ops EXCEPT ![s] =
       [pc |-> "called", kind |-> "add", list |-> L, id |-> ToString(now),
        data |-> data, elem |-> addElement(L, data, now), snap |-> <<>>,
        before |-> RetNull, rver |-> 0, wver |-> 0]]
  /\ UNCHANGED <<docs, ver, now, appVars>>

\* an add that writes a list of its one element instead of a union
addWrite_replace(s) ==
  /\ ops[s].pc = "called"
  /\ ops[s].kind = "add"
  /\ LET L == ops[s].list
     IN  /\ docs' = [docs EXCEPT ![Uid] =
                setDocMerge(@, Field(L, <<ops[s].elem>>))]
         /\ ver' = [ver EXCEPT ![L] = @ + 1]
         /\ ops' = [ops EXCEPT ![s].pc = "done", ![s].wver = ver[L] + 1]
  /\ UNCHANGED <<now, calls, appVars>>

\* the store applies the merge write with its arrayUnion transform
addWrite(s) ==
  /\ ops[s].pc = "called"
  /\ ops[s].kind = "add"
  /\ LET L == ops[s].list
     IN  /\ docs' = [docs EXCEPT ![Uid] =
                setDocMerge(@, Field(L, arrayUnion(@, L, ops[s].elem)))]
         /\ ver' = [ver EXCEPT ![L] = @ + 1]
         /\ ops' = [ops EXCEPT ![s].pc = "done", ![s].wver = ver[L] + 1]
  /\ UNCHANGED <<now, calls, appVars>>

\* updateIncome / updateExpense / updateUserGoal up to the second await:
\* getDoc has answered; a missing document ends the call
updateCall(s, L, id, updatedData) ==
  /\ Free(s)
  /\ calls < MaxCalls
  /\ calls' = calls + 1
  /\ ops' = [ops EXCEPT ![s] =
       [pc |-> IF docs[Uid].exists THEN "read" ELSE "done",
        kind |-> "update", list |-> L, id |-> id, data |-> updatedData,
        elem |-> <<>>, snap |-> ListOf(docs[Uid], L), before |-> getAll(L, docs[Uid]),
        rver |-> ver[L], wver |-> 0]]
  /\ UNCHANGED <<docs, ver, now, appVars>>

\* an update that maps the list as it is when the write is applied, as a
\* transaction would
updateWrite_transaction(s) ==
  /\ ops[s].pc = "read"
  /\ ops[s].kind = "update"
  /\ LET L == ops[s].list
     IN  /\ docs' = [docs EXCEPT ![Uid] = updateDoc(@, Field(L,
                     updateList(L, ListOf(@, L), ops[s].id, ops[s].data)))]
         /\ ver' = [ver EXCEPT ![L] = @ + 1]
         /\ ops' = [ops EXCEPT ![s].pc = "done", ![s].wver = ver[L] + 1]
  /\ UNCHANGED <<now, calls, appVars>>

\* the store applies updateDoc(docRef, {list: updated})
updateWrite(s) ==
  /\ ops[s].pc = "read"
  /\ ops[s].kind = "update"
  /\ LET L == ops[s].list
     IN  /\ docs' = [docs EXCEPT ![Uid] = updateDoc(@, Field(L,
                     updateList(L, ops[s].snap, ops[s].id, ops[s].data)))]
         /\ ver' = [ver EXCEPT ![L] = @ + 1]
         /\ ops' = [ops EXCEPT ![s].pc = "done", ![s].wver = ver[L] + 1]
  /\ UNCHANGED <<now, calls, appVars>>

\* deleteIncome / deleteExpense / deleteUserGoal up to the second await
deleteCall(s, L, id) ==
  /\ Free(s)
  /\ calls < MaxCalls
  /\ calls' = calls + 1
  /\ ops' = [ops EXCEPT ![s] =
       [pc |-> IF docs[Uid].exists THEN "read" ELSE "done",
        kind |-> "delete", list |-> L, id |-> id, data |-> <<>>,
        elem |-> <<>>, snap |-> ListOf(docs[Uid], L), before |-> getAll(L, docs[Uid]),
        rver |-> ver[L], wver |-> 0]]
  /\ UNCHANGED <<docs, ver, now, appVars>>

\* a delete that filters the list as it is when the write is applied, as a
\* transaction would
deleteWrite_transaction(s) ==
  /\ ops[s].pc = "read"
  /\ ops[s].kind = "delete"
  /\ LET L == ops[s].list
     IN  /\ docs' = [docs EXCEPT ![Uid] = updateDoc(@, Field(L,
                     deleteList(L, ListOf(@, L), ops[s].id)))]
         /\ ver' = [ver EXCEPT ![L] = @ + 1]
         /\ ops' = [ops EXCEPT ![s].pc = "done", ![s].wver = ver[L] + 1]
  /\ UNCHANGED <<now, calls, appVars>>

\* the store applies updateDoc(docRef, {list: filtered})
deleteWrite(s) ==
  /\ ops[s].pc = "read"
  /\ ops[s].kind = "delete"
  /\ LET L == ops[s].list
     IN  /\ docs' = [docs EXCEPT ![Uid] = updateDoc(@, Field(L,
                     deleteList(L, ops[s].snap, ops[s].id)))]
         /\ ver' = [ver EXCEPT ![L] = @ + 1]
         /\ ops' = [ops EXCEPT ![s].pc = "done", ![s].wver = ver[L] + 1]
  /\ UNCHANGED <<now, calls, appVars>>

\* ------------------------------------------------------------------------
\* Specification of the data-access layer
\* ------------------------------------------------------------------------
\* the document is absent (registration's createUser failed) or is the one
\* createUser wrote
Init ==
  /\ docs \in {[u \in Uids |-> NoDoc],
             [u \in Uids |-> IF u = Uid
                              THEN setDoc(NoDoc, createUser("a@b.com"))
                              ELSE NoDoc]}
  /\ ver = [L \in Lists |-> 0]
  /\ now = 1
  /\ calls = 0
  /\ ops = [s \in Slots |-> Idle]
  /\ NobodyThere

Next ==
  \/ Tick
  \/ \E s \in Slots, L \in Lists : \E data \in Records(L) : addCall(s, L, data)
  \/ \E s \in Slots : addWrite(s)
  \/ \E s \in Slots, L \in Lists, id \in Ids :
       \E updatedData \in Patches(id) : updateCall(s, L, id, updatedData)
  \/ \E s \in Slots : updateWrite(s)
  \/ \E s \in Slots, L \in Lists, id \in Ids : deleteCall(s, L, id)
  \/ \E s \in Slots : deleteWrite(s)

Spec == Init /\ [][Next]_vars

\* ------------------------------------------------------------------------
\* Actions of the session provider, the Login view and the router
\* ------------------------------------------------------------------------
\* the handler of the Login view awaits a backend call
Awaiting == handler.pc \in {"signup", "createUser", "login"}

\* a provider that renders its children while it is loading
Display_whileLoading(p, user, isLoading) ==
  LET r == Render(p, user, hasSeenSplash, MaxRedirects)
  IN  /\ path' = r.path
      /\ view' = r.view
      /\ hasSeenSplash' = r.seen

\* the router shows path p to a session whose user is user: nothing while
\* AuthProvider is loading, else the view the redirects end at
Display(p, user, isLoading) ==
  IF isLoading
  THEN /\ path' = p
       /\ view' = "none"
       /\ hasSeenSplash' = hasSeenSplash
  ELSE LET r == Render(p, user, hasSeenSplash, MaxRedirects)
       IN  /\ path' = r.path
           /\ view' = r.view
           /\ hasSeenSplash' = r.seen

\* navigate(p), or the visitor entering p in the address bar, in a session
\* whose user is user
navigate(p, user) ==
  /\ target' = p
  /\ Display(p, user, loading)

\* a callback that ends loading but keeps the user it had
handleAuthStateChanged_keepsUser(user) ==
  /\ currentUser' = currentUser
  /\ loading' = FALSE

\* handleAuthStateChanged(user): the state AuthProvider keeps of a change of
\* the signed-in user. The service calls it once after the page is loaded
\* and, on a sign-in or sign-out, before the promise of that call resolves.
handleAuthStateChanged(user) ==
  /\ currentUser' = user
  /\ loading' = FALSE

\* after a page load the service reports the session it kept; the children
\* of AuthProvider are rendered for the first time
authStateResolved ==
  /\ loading
  /\ handleAuthStateChanged(authUser)
  /\ Display(path, authUser, FALSE)
  /\ UNCHANGED <<accounts, authUser, target, loginVars, storeVars, viewVars>>

\* the page is loaded again: React state starts over, the service reports
\* the session it kept
Reload ==
  /\ ~loading
  /\ currentUser' = NoUser
  /\ loading' = TRUE
  /\ view' = "none"
  /\ target' = path
  /\ handler' = NoHandler
  /\ signingOut' = FALSE
  /\ notification' = NoNotification
  /\ UNCHANGED <<accounts, authUser, path, hasSeenSplash, storeVars, viewVars>>

\* the visitor opens path p (address bar, or a link of the Sidebar)
Visit(p) ==
  /\ p # path
  /\ navigate(p, currentUser)
  /\ UNCHANGED <<sessionVars, loginVars, storeVars, viewVars>>

\* SplashScreen.handleGetStarted
handleGetStarted ==
  /\ view = "LandingPage"
  /\ navigate("/dashboard", currentUser)
  /\ UNCHANGED <<sessionVars, loginVars, storeVars, viewVars>>

\* a handleRegister that compares the confirmation before it tests the policy
handleRegister_matchFirst(email, password, confirmPassword) ==
  /\ view = "Login"
  /\ ~Awaiting
  /\ LET call == [kind |-> "register", email |-> email,
                  password |-> password,
                  confirmPassword |-> confirmPassword, uid |-> NoUser]
     IN  IF password # confirmPassword
         THEN /\ notification' = MismatchNotification
              /\ handler' = Merge(call, [pc |-> "mismatch"])
         ELSE IF weakPassword(password)
              THEN /\ notification' = WeakPasswordNotification
                   /\ handler' = Merge(call, [pc |-> "rejected"])
              ELSE /\ notification' = notification
                   /\ handler' = Merge(call, [pc |-> "signup"])
  /\ UNCHANGED <<sessionVars, routeVars, signingOut, storeVars, viewVars>>

\* handleRegister up to its first await: the two local checks, then signup
handleRegister(email, password, confirmPassword) ==
  /\ view = "Login"
  /\ ~Awaiting
  /\ LET call == [kind |-> "register", email |-> email,
                  password |-> password,
                  confirmPassword |-> confirmPassword, uid |-> NoUser]
     IN  IF weakPassword(password)
         THEN /\ notification' = WeakPasswordNotification
              /\ handler' = Merge(call, [pc |-> "rejected"])
         ELSE IF password # confirmPassword
              THEN /\ notification' = MismatchNotification
                   /\ handler' = Merge(call, [pc |-> "mismatch"])
              ELSE /\ notification' = notification
                   /\ handler' = Merge(call, [pc |-> "signup"])
  /\ UNCHANGED <<sessionVars, routeVars, signingOut, storeVars, viewVars>>

\* a uid the service has not handed out
FreshUids == Uids \ {a.uid : a \in accounts}

\* signup resolves: the account exists and its user is signed in, which
\* the callback has been told; handleRegister goes on to call createUser
signupSucceeds ==
  /\ handler.pc = "signup"
  /\ \A a \in accounts : a.email # handler.email
  /\ FreshUids # {}
  /\ LET uid == CHOOSE u \in FreshUids : TRUE
     IN  /\ accounts' = accounts \cup
              {[email |-> handler.email, password |-> handler.password,
                uid |-> uid]}
         /\ authUser' = uid
         /\ handleAuthStateChanged(uid)
         /\ Display(path, uid, FALSE)
         /\ handler' = [handler EXCEPT !.pc = "createUser", !.uid = uid]
  /\ UNCHANGED <<target, signingOut, notification, storeVars, viewVars>>

\* signup throws: handleRegister's catch shows the error
signupThrows(errorMessage) ==
  /\ handler.pc = "signup"
  /\ errorMessage = EmailInUse => \E a \in accounts : a.email = handler.email
  /\ notification' = RegistrationFailedNotification(errorMessage)
  /\ handler' = [handler EXCEPT !.pc = "failed"]
  /\ UNCHANGED <<sessionVars, routeVars, signingOut, storeVars, viewVars>>

\* createUser resolves: the profile document is written, then handleRegister
\* shows the success notification and navigates to /dashboard
createUserSucceeds ==
  /\ handler.pc = "createUser"
  /\ docs' = [docs EXCEPT ![handler.uid] = setDoc(@, createUser(handler.email))]
  /\ notification' = CreatedNotification
  /\ navigate("/dashboard", currentUser)
  /\ handler' = [handler EXCEPT !.pc = "registered"]
  /\ UNCHANGED <<sessionVars, signingOut, ver, now, calls, ops, viewVars>>

\* createUser throws: handleRegister's catch shows the error
createUserThrows ==
  /\ handler.pc = "createUser"
  /\ notification' = RegistrationFailedNotification(StoreUnavailable)
  /\ handler' = [handler EXCEPT !.pc = "failed"]
  /\ UNCHANGED <<sessionVars, routeVars, signingOut, storeVars, viewVars>>

\* handleLogin up to its await
handleLogin(email, password) ==
  /\ view = "Login"
  /\ ~Awaiting
  /\ handler' = [pc |-> "login", kind |-> "login", email |-> email,
                 password |-> password, confirmPassword |-> <<>>,
                 uid |-> NoUser]
  /\ UNCHANGED <<sessionVars, routeVars, signingOut, notification, storeVars, viewVars>>

\* login resolves: the user is signed in, which the callback has been told;
\* handleLogin navigates to /dashboard
loginSucceeds ==
  /\ handler.pc = "login"
  /\ \E a \in accounts :
       /\ a.email = handler.email
       /\ a.password = handler.password
       /\ authUser' = a.uid
       /\ handleAuthStateChanged(a.uid)
       /\ navigate("/dashboard", a.uid)
       /\ handler' = [handler EXCEPT !.pc = "loggedIn", !.uid = a.uid]
  /\ notification' = LoggedInNotification
  /\ UNCHANGED <<accounts, signingOut, storeVars, viewVars>>

\* login throws: handleLogin's catch shows the error
loginThrows(errorMessage) ==
  /\ handler.pc = "login"
  /\ errorMessage = WrongCredential =>
       ~\E a \in accounts :
          a.email = handler.email /\ a.password = handler.password
  /\ notification' = LoginFailedNotification(errorMessage)
  /\ handler' = [handler EXCEPT !.pc = "failed"]
  /\ UNCHANGED <<sessionVars, routeVars, signingOut, storeVars, viewVars>>

\* Sidebar.handleLogout up to its await
handleLogout ==
  /\ view \in GuardedViews
  /\ ~signingOut
  /\ signingOut' = TRUE
  /\ UNCHANGED <<sessionVars, routeVars, handler, notification, storeVars, viewVars>>

\* logout resolves: nobody is signed in, which the callback has been told;
\* handleLogout navigates to /login
logoutSucceeds ==
  /\ signingOut
  /\ authUser' = NoUser
  /\ handleAuthStateChanged(NoUser)
  /\ signingOut' = FALSE
  /\ navigate("/login", NoUser)
  /\ UNCHANGED <<accounts, handler, notification, storeVars, viewVars>>

\* logout throws: handleLogout logs the error and stays
logoutThrows ==
  /\ signingOut
  /\ signingOut' = FALSE
  /\ UNCHANGED <<sessionVars, routeVars, handler, notification, storeVars, viewVars>>

\* ------------------------------------------------------------------------
\* Specification of the session, the Login view and the router
\* ------------------------------------------------------------------------
\* the application is opened at some path by a visitor nobody is signed in
\* for; the service has not reported yet
AppInit ==
  /\ docs = [u \in Uids |-> NoDoc]
  /\ ver = [L \in Lists |-> 0]
  /\ now = 1
  /\ calls = 0
  /\ ops = [s \in Slots |-> Idle]
  /\ accounts = {}
  /\ authUser = NoUser
  /\ currentUser = NoUser
  /\ loading = TRUE
  /\ path \in Paths
  /\ target = path
  /\ view = "none"
  /\ hasSeenSplash \in BOOLEAN
  /\ handler = NoHandler
  /\ signingOut = FALSE
  /\ notification = NoNotification
  /\ NoViewActivity

AppNext ==
  \/ authStateResolved
  \/ Reload
  \/ \E p \in Paths : Visit(p)
  \/ handleGetStarted
  \/ \E email \in Emails, password \in Passwords,
        confirmPassword \in ConfirmPasswords :
       handleRegister(email, password, confirmPassword)
  \/ signupSucceeds
  \/ \E errorMessage \in {EmailInUse, AuthUnavailable} : signupThrows(errorMessage)
  \/ createUserSucceeds
  \/ createUserThrows
  \/ \E email \in Emails, password \in Passwords : handleLogin(email, password)
  \/ loginSucceeds
  \/ \E errorMessage \in {WrongCredential, AuthUnavailable} : loginThrows(errorMessage)
  \/ handleLogout
  \/ logoutSucceeds
  \/ logoutThrows

AppSpec == AppInit /\ [][AppNext]_vars

\* ------------------------------------------------------------------------
\* Actions of the view handlers and of the provider functions they await,
\* one handler at a time
\* ------------------------------------------------------------------------
\* no view handler is under way
Quiet == vcall.pc \in {"idle", "ended"}

\* the ids a list view can submit: those of the items it fetched earlier,
\* which the document may hold or not by now
ViewIds == {"0", "1"}

\* the password typed into the Login view: one the policy accepts, one too
\* short
ValidPassword == <<"A", "b", "c", "d", "e", "f", "1", "2">>
ShortPassword == <<"A", "b", "c", "d", "e", "1", "2">>

\* what a function returns that returns nothing
Undefined == RetNull

\* the provider function fn is called with the arguments held in c: an add
\* takes its id from the clock, then the first backend call is issued
issue(fn, c) ==
  [c EXCEPT !.fn = fn,
            !.pc = FirstAwait(fn),
            !.elem = IF FnKind(fn) = "add"
                     THEN addElement(FnList(fn), c.data, now) ELSE <<>>,
            !.snap = <<>>]

\* handler h is called with an id and a record: the console of the run is
\* empty and the first function of the handler is called
begin(h, id, data) ==
  /\ Quiet
  /\ ~loading
  /\ calls < MaxCalls
  /\ calls' = calls + 1
  /\ vcall' = issue(h.fns[1],
       [NoCall EXCEPT !.view = h.view, !.handler = h.name,
                      !.catches = h.catches, !.rest = Tail(h.fns),
                      !.uid = currentUser, !.id = id, !.data = data])
  /\ console' = <<>>
  /\ unhandled' = NoError

\* fetchPurchases / fetchPaychecks / fetchGoals, run by the effect of the view
callFetch(v) ==
  /\ view = v
  /\ currentUser # NoUser
  /\ begin(fetchList(v), "", <<>>)
  /\ UNCHANGED <<docs, ver, now, ops, sessionVars, routeVars, loginVars, ui>>

\* handleSubmit of a list view while isEditing is false
callSubmitAdd(v, data) ==
  /\ view = v
  /\ begin(handleSubmitAdd(v), "", data)
  /\ UNCHANGED <<docs, ver, now, ops, sessionVars, routeVars, loginVars, ui>>

\* handleSubmit of a list view while isEditing is true
callSubmitEdit(v, id, updatedData) ==
  /\ view = v
  /\ begin(handleSubmitEdit(v), id, updatedData)
  /\ UNCHANGED <<docs, ver, now, ops, sessionVars, routeVars, loginVars, ui>>

\* handleDelete of a list view
callDelete(v, id) ==
  /\ view = v
  /\ begin(handleDelete(v), id, <<>>)
  /\ UNCHANGED <<docs, ver, now, ops, sessionVars, routeVars, loginVars, ui>>

\* UserProfile.fetchUserData
callFetchUserData ==
  /\ view = "UserProfile"
  /\ currentUser # NoUser
  /\ begin(fetchUserData, "", <<>>)
  /\ UNCHANGED <<docs, ver, now, ops, sessionVars, routeVars, loginVars, ui>>

\* UserProfile.handleSubmit
callSubmitProfile(updatedData) ==
  /\ view = "UserProfile"
  /\ begin(handleSubmitProfile, "", updatedData)
  /\ UNCHANGED <<docs, ver, now, ops, sessionVars, routeVars, loginVars, ui>>

\* Dashboard.fetchData up to its await
callFetchData ==
  /\ view = "Dashboard"
  /\ currentUser # NoUser
  /\ begin(fetchData, "", <<>>)
  /\ ui' = [ui EXCEPT !.loading = TRUE]
  /\ UNCHANGED <<docs, ver, now, ops, sessionVars, routeVars, loginVars>>

\* Login.handleRegister up to its first await, run with nothing else under way
callRegister(email, password, confirmPassword) ==
  /\ view = "Login"
  /\ LET form == [email |-> email, password |-> password]
     IN  IF weakPassword(password) \/ password # confirmPassword
         THEN /\ Quiet
              /\ ~loading
              /\ calls < MaxCalls
              /\ calls' = calls + 1
              /\ vcall' = [NoCall EXCEPT !.view = "Login",
                                         !.handler = "handleRegister",
                                         !.catches = TRUE, !.data = form,
                                         !.pc = "ended",
                                         !.outcome = "rejected"]
              /\ console' = <<>>
              /\ unhandled' = NoError
              /\ notification' = IF weakPassword(password)
                                 THEN WeakPasswordNotification
                                 ELSE MismatchNotification
         ELSE /\ begin(registerHandler, "", form)
              /\ notification' = notification
  /\ UNCHANGED <<docs, ver, now, ops, sessionVars, routeVars, handler,
                 signingOut, ui>>

\* Login.handleLogin up to its await, run with nothing else under way
callLogin(email, password) ==
  /\ view = "Login"
  /\ begin(loginHandler, "", [email |-> email, password |-> password])
  /\ UNCHANGED <<docs, ver, now, ops, sessionVars, routeVars, loginVars, ui>>

\* Sidebar.handleLogout up to its await, run with nothing else under way
callLogout ==
  /\ view \in GuardedViews
  /\ begin(logoutHandler, "", <<>>)
  /\ UNCHANGED <<docs, ver, now, ops, sessionVars, routeVars, loginVars, ui>>

\* the last function of a handler has returned: what the handler does next
complete(c, ret, rets, user) ==
  CASE c.view \in ListViews ->
         /\ ui' = [ui EXCEPT !.items = IF ret.isNull THEN <<>> ELSE ret.val]
         /\ UNCHANGED <<notification, routeVars>>
    [] c.handler = "fetchUserData" ->
         /\ ui' = IF ret.isNull THEN ui
                  ELSE [ui EXCEPT !.profile = userDataOf(ret.val)]
         /\ UNCHANGED <<notification, routeVars>>
    [] c.view = "UserProfile" /\ c.handler = "handleSubmit" ->
         /\ ui' = [ui EXCEPT !.popup = ProfileUpdatedPopup]
         /\ UNCHANGED <<notification, routeVars>>
    [] c.handler = "fetchData" ->
         /\ ui' = [ui EXCEPT
              !.cards = [L \in Lists |->
                 LET r == CASE L = "expenses" -> rets[1]
                            [] L = "goals"    -> rets[2]
                            [] L = "income"   -> rets[3]
                 IN  IF lastOf(r) # <<>> THEN lastOf(r) ELSE ui.cards[L]],
              !.loading = FALSE]
         /\ UNCHANGED <<notification, routeVars>>
    [] c.handler = "handleRegister" ->
         /\ notification' = CreatedNotification
         /\ navigate("/dashboard", user)
         /\ ui' = InitialUi
    [] c.handler = "handleLogin" ->
         /\ notification' = LoggedInNotification
         /\ navigate("/dashboard", user)
         /\ ui' = InitialUi
    [] c.handler = "handleLogout" ->
         /\ notification' = notification
         /\ navigate("/login", user)
         /\ ui' = InitialUi

\* the function under way returns ret to the handler, which calls its next
\* function or ends; user is currentUser as the step leaves it
proceed(c, ret, user) ==
  LET rets == Append(c.rets, ret)
  IN  IF c.rest # <<>>
      THEN /\ vcall' = issue(Head(c.rest),
                 [c EXCEPT !.rest = Tail(c.rest), !.ret = ret, !.rets = rets,
                           !.uid = IF c.fn = "signup" THEN ret.val ELSE c.uid])
           /\ UNCHANGED <<ui, notification, routeVars>>
      ELSE /\ vcall' = [c EXCEPT !.pc = "ended", !.outcome = "completed",
                                 !.ret = ret, !.rets = rets]
           /\ complete(c, ret, rets, user)

\* getDoc resolves: a get returns; an update or delete of a user without a
\* document returns, of a user with one goes on to its write
getDocResolves ==
  /\ vcall.pc = "getDoc"
  /\ LET doc == docs[vcall.uid]
         L == FnList(vcall.fn)
     IN  CASE FnKind(vcall.fn) = "get" ->
                proceed(vcall, getList(vcall.fn, doc), currentUser)
           [] FnKind(vcall.fn) = "getUserData" ->
                proceed(vcall, getUserData(doc), currentUser)
           [] OTHER ->
                IF doc.exists
                THEN /\ vcall' = [vcall EXCEPT !.pc = "updateDoc",
                                               !.snap = ListOf(doc, L)]
                     /\ UNCHANGED <<ui, notification, routeVars>>
                ELSE proceed(vcall, Undefined, currentUser)
  /\ UNCHANGED <<storeVars, sessionVars, handler, signingOut, console,
                 unhandled>>

\* setDoc resolves: the write of createUser, updateUser or an add is applied
setDocResolves ==
  /\ vcall.pc = "setDoc"
  /\ LET L == FnList(vcall.fn)
     IN  CASE vcall.fn = "createUser" ->
                /\ docs' = [docs EXCEPT ![vcall.uid] =
                              setDoc(@, createUser(vcall.data.email))]
                /\ ver' = ver
           [] vcall.fn = "updateUser" ->
                /\ docs' = [docs EXCEPT ![vcall.uid] =
                              setDocMerge(@, vcall.data)]
                /\ ver' = ver
           [] OTHER ->
                /\ docs' = [docs EXCEPT ![vcall.uid] =
                     setDocMerge(@, Field(L, arrayUnion(@, L, vcall.elem)))]
                /\ ver' = [ver EXCEPT ![L] = @ + 1]
  /\ proceed(vcall, Undefined, currentUser)
  /\ UNCHANGED <<now, calls, ops, sessionVars, handler, signingOut, console,
                 unhandled>>

\* updateDoc resolves: the list computed from the read is written back
updateDocResolves ==
  /\ vcall.pc = "updateDoc"
  /\ LET L == FnList(vcall.fn)
         written == IF FnKind(vcall.fn) = "update"
                    THEN updateList(L, vcall.snap, vcall.id, vcall.data)
                    ELSE deleteList(L, vcall.snap, vcall.id)
     IN  /\ docs' = [docs EXCEPT ![vcall.uid] = updateDoc(@, Field(L, written))]
         /\ ver' = [ver EXCEPT ![L] = @ + 1]
  /\ proceed(vcall, Undefined, currentUser)
  /\ UNCHANGED <<now, calls, ops, sessionVars, handler, signingOut, console,
                 unhandled>>

\* AuthContext.signup returns the credential: the account exists and its user
\* is signed in, which the callback has been told
signupResolves ==
  /\ vcall.pc = "auth"
  /\ vcall.fn = "signup"
  /\ \A a \in accounts : a.email # vcall.data.email
  /\ FreshUids # {}
  /\ LET uid == CHOOSE u \in FreshUids : TRUE
     IN  /\ accounts' = accounts \cup
              {[email |-> vcall.data.email, password |-> vcall.data.password,
                uid |-> uid]}
         /\ authUser' = uid
         /\ handleAuthStateChanged(uid)
         /\ proceed(vcall, [isNull |-> FALSE, val |-> uid], uid)
  /\ UNCHANGED <<storeVars, handler, signingOut, console, unhandled>>

\* AuthContext.login returns the credential
loginResolves ==
  /\ vcall.pc = "auth"
  /\ vcall.fn = "login"
  /\ \E a \in accounts :
       /\ a.email = vcall.data.email
       /\ a.password = vcall.data.password
       /\ authUser' = a.uid
       /\ handleAuthStateChanged(a.uid)
       /\ proceed(vcall, [isNull |-> FALSE, val |-> a.uid], a.uid)
  /\ UNCHANGED <<storeVars, accounts, handler, signingOut, console, unhandled>>

\* AuthContext.logout returns
logoutResolves ==
  /\ vcall.pc = "auth"
  /\ vcall.fn = "logout"
  /\ authUser' = NoUser
  /\ handleAuthStateChanged(NoUser)
  /\ proceed(vcall, Undefined, NoUser)
  /\ UNCHANGED <<storeVars, accounts, handler, signingOut, console, unhandled>>

\* the errors the two backends reject with
BackendErrors ==
  {FirebaseError(m) :
     m \in {AuthUnavailable, EmailInUse, WrongCredential, StoreUnavailable}}

\* the errors the backend call under way can reject with
Rejections ==
  IF vcall.pc = "auth"
  THEN {FirebaseError(AuthUnavailable)}
       \cup (IF /\ vcall.fn = "signup"
                /\ \E a \in accounts : a.email = vcall.data.email
             THEN {FirebaseError(EmailInUse)} ELSE {})
       \cup (IF /\ vcall.fn = "login"
                /\ ~\E a \in accounts : /\ a.email = vcall.data.email
                                        /\ a.password = vcall.data.password
             THEN {FirebaseError(WrongCredential)} ELSE {})
  ELSE {FirebaseError(StoreUnavailable)}

\* handlers whose catch clauses log nothing
handlerLog_silent(c, error) == <<>>

\* what the handler's own catch clause logs
handlerLog(c, error) ==
  CASE c.view = "UserProfile" /\ c.handler = "handleSubmit" ->
         <<[label |-> "Error updating profile:", error |-> error]>>
    [] c.handler = "handleLogout" ->
         <<[label |-> "Failed to logout:", error |-> error]>>
    [] OTHER -> <<>>

\* the backend call under way rejects with e: the function's catch clause
\* logs and throws; the handler's catch clause, when it has one, takes the
\* error, else the error leaves the handler
backendRejects(e) ==
  /\ vcall.pc \in {"getDoc", "setDoc", "updateDoc", "auth"}
  /\ e \in Rejections
  /\ LET r == rethrow(ErrorLabel(vcall.fn), e)
     IN  /\ vcall' = [vcall EXCEPT
                        !.pc = "ended", !.raised = e, !.error = r.thrown,
                        !.outcome = IF vcall.catches THEN "caught"
                                    ELSE "escaped"]
         /\ console' = IF vcall.catches
                       THEN Append(console, r.log) \o handlerLog(vcall, r.thrown)
                       ELSE Append(console, r.log)
         /\ unhandled' = IF vcall.catches THEN unhandled ELSE r.thrown
         /\ notification' =
              CASE vcall.handler = "handleRegister" ->
                     RegistrationFailedNotification(r.thrown.message)
                [] vcall.handler = "handleLogin" ->
                     LoginFailedNotification(r.thrown.message)
                [] OTHER -> notification
         /\ ui' =
              CASE vcall.handler = "fetchUserData" ->
                     [ui EXCEPT !.popup = FetchFailedPopup]
                [] vcall.view = "UserProfile" /\ vcall.handler = "handleSubmit" ->
                     [ui EXCEPT !.popup = UpdateFailedPopup]
                [] vcall.handler = "fetchData" ->
                     [ui EXCEPT !.popup = FetchDataFailedNotification,
                                !.loading = FALSE]
                [] OTHER -> ui
  /\ UNCHANGED <<storeVars, sessionVars, routeVars, handler, signingOut>>

\* ------------------------------------------------------------------------
\* Specification of the view handlers
\* ------------------------------------------------------------------------
\* the path of a guarded view
PathOf(v) == CHOOSE p \in GuardedPaths : GuardedView(p) = v

\* the views whose handlers call the providers
DataViews == ListViews \cup {"UserProfile", "Dashboard"}

\* a document that earlier sessions filled: the profile and one element in
\* each list
FilledDoc ==
  setDoc(NoDoc,
    [email |-> "a@b.com", created |-> "serverTimestamp", name |-> "Ann",
     username |-> "ann", dob |-> "2000-01-01", profilePicture |-> "blob:0",
     income |-> <<[source |-> "Job", amount |-> 4, id |-> "0",
                   active |-> TRUE]>>,
     expenses |-> <<[name |-> "Coffee", amount |-> 4, category |-> "Dining",
                     id |-> "0"]>>,
     goals |-> <<[name |-> "Car", amount |-> 4, id |-> "0"]>>])

\* the registered user is signed in at one of the views, or nobody is and the
\* Login view is shown; the user's document is absent (createUser failed), as
\* createUser wrote it, or filled
ViewInit ==
  /\ docs \in {[u \in Uids |-> IF u = Uid THEN d ELSE NoDoc] :
                 d \in {NoDoc, setDoc(NoDoc, createUser("a@b.com")), FilledDoc}}
  /\ ver = [L \in Lists |-> 0]
  /\ now = 1
  /\ calls = 0
  /\ ops = [s \in Slots |-> Idle]
  /\ accounts = {[email |-> "a@b.com", password |-> ValidPassword, uid |-> Uid]}
  /\ loading = FALSE
  /\ \/ /\ authUser = Uid
        /\ currentUser = Uid
        /\ view \in DataViews
        /\ path = PathOf(view)
     \/ /\ authUser = NoUser
        /\ currentUser = NoUser
        /\ view = "Login"
        /\ path = "/login"
  /\ target = path
  /\ hasSeenSplash = TRUE
  /\ handler = NoHandler
  /\ signingOut = FALSE
  /\ notification = NoNotification
  /\ NoViewActivity

ViewNext ==
  \/ Tick
  \/ \E v \in ListViews : callFetch(v)
  \/ \E v \in ListViews : \E data \in Records(ViewList(v)) : callSubmitAdd(v, data)
  \/ \E v \in ListViews, id \in ViewIds :
       \E updatedData \in Patches(id) : callSubmitEdit(v, id, updatedData)
  \/ \E v \in ListViews, id \in ViewIds : callDelete(v, id)
  \/ callFetchUserData
  \/ \E updatedData \in ProfileForms : callSubmitProfile(updatedData)
  \/ callFetchData
  \/ \E email \in Emails, password \in {ValidPassword, ShortPassword} :
       callRegister(email, password, ValidPassword)
  \/ \E email \in Emails : callLogin(email, ValidPassword)
  \/ callLogout
  \/ getDocResolves
  \/ setDocResolves
  \/ updateDocResolves
  \/ signupResolves
  \/ loginResolves
  \/ logoutResolves
  \/ \E e \in BackendErrors : backendRejects(e)

ViewSpec == ViewInit /\ [][ViewNext]_vars

\* ------------------------------------------------------------------------
\* Properties of the data-access layer
\* ------------------------------------------------------------------------
\* slot s completes a write of the given kind in this step
Completes(s, kind) ==
  /\ ops[s].kind = kind
  /\ ops[s].pc \in {"called", "read"}
  /\ ops'[s].pc = "done"

\* element e carries every field of record r with r's value
HasFieldsOf(e, r) == \A k \in DOMAIN r : k \in DOMAIN e /\ e[k] = r[k]

\* the array arr has an element with the fields of r and a non-empty id
ContainsAdded(arr, r) ==
  \E i \in 1..Len(arr) :
    /\ HasFieldsOf(arr[i], r)
    /\ "id" \in DOMAIN arr[i]
    /\ arr[i].id # ""

\* C1: for income, expenses and goals alike, once an add has completed, a
\* get of "all" issued right after it returns a list (not null) holding an
\* element with every field of the submitted record and a non-empty id.
C1_AddThenGetAll ==
  [][\A s \in Slots :
       Completes(s, "add") =>
         LET r == getAll(ops[s].list, docs'[Uid])
         IN  /\ ~r.isNull
             /\ ContainsAdded(r.val, ops[s].data)]_vars

\* an add to the income list has completed as the latest write to it and the
\* list holds its element, with the active flag the add set
C1_Witness ==
  \E s \in Slots :
    /\ ops[s].pc = "done"
    /\ ops[s].kind = "add"
    /\ ops[s].list = "income"
    /\ ops[s].wver = ver["income"]
    /\ ContainsAdded(getIncome(docs[Uid], All).val, ops[s].data)
    /\ Len(ListOf(docs[Uid], "income")) = 2

\* slot s completes a delete whose read held exactly the element it removes
DeletesOnlyElement(s) ==
  /\ Completes(s, "delete")
  /\ Len(ops[s].snap) = 1
  /\ ops[s].snap[1].id = ops[s].id

NoMatch(s) == \A i \in 1..Len(ops[s].snap) : ops[s].snap[i].id # ops[s].id

\* slot s is given an update that ends at once, the user having no document
EndsWithoutDocument(s) ==
  /\ Free(s)
  /\ ops'[s] # ops[s]
  /\ ops'[s].kind = "update"
  /\ ops'[s].pc = "done"

\* C3: an update whose id matches no element of the list completes and
\* changes nothing: the list stored after it is the list it read, a get of
\* "all" returns what it returned before the call, and no other field of the
\* document changes; for a user without a document nothing is written.
C3_UpdateMissingIdNoOp ==
  [][\A s \in Slots :
       /\ (Completes(s, "update") /\ NoMatch(s)) =>
            /\ ListOf(docs'[Uid], ops[s].list) = ops[s].snap
            /\ getAll(ops[s].list, docs'[Uid]) = ops[s].before
            /\ \A k \in DOMAIN docs[Uid].data \ {ops[s].list} :
                 /\ k \in DOMAIN docs'[Uid].data
                 /\ docs'[Uid].data[k] = docs[Uid].data[k]
       /\ EndsWithoutDocument(s) =>
            /\ ~docs[Uid].exists
            /\ docs' = docs]_vars

\* an update naming an id that is not in a non-empty goals list has completed
C3_Witness ==
  \E s \in Slots :
    /\ ops[s].pc = "done"
    /\ ops[s].kind = "update"
    /\ ops[s].list = "goals"
    /\ ops[s].wver = ver["goals"]
    /\ ops[s].wver > 0
    /\ Len(ops[s].snap) > 0
    /\ NoMatch(s)
    /\ ListOf(docs[Uid], "goals") = ops[s].snap

\* C4: an update of an existing element replaces only that element: for the
\* element at index i of the list read that has the id, the list stored (and
\* returned by a get of "all") has the same length, holds at i an element
\* with the same id, the patch's values and the unpatched fields as they
\* were, and holds every other element unchanged at its index.
C4_UpdateReplacesOnlyThatElement ==
  [][\A s \in Slots :
       Completes(s, "update") =>
         \A i \in 1..Len(ops[s].snap) :
           ops[s].snap[i].id = ops[s].id =>
             LET old == ops[s].snap
                 r == getAll(ops[s].list, docs'[Uid])
                 new == r.val
             IN  /\ ~r.isNull
                 /\ Len(new) = Len(old)
                 /\ new[i].id = ops[s].id
                 /\ HasFieldsOf(new[i], ops[s].data)
                 /\ \A k \in DOMAIN old[i] \ DOMAIN ops[s].data :
                      k \in DOMAIN new[i] /\ new[i][k] = old[i][k]
                 /\ DOMAIN new[i] = DOMAIN old[i] \cup DOMAIN ops[s].data
                 /\ \A j \in 1..Len(old) : j # i => new[j] = old[j]]_vars

\* the effect a completed update or delete computed from its own read
Effect(s) ==
  IF ops[s].kind = "update"
  THEN updateList(ops[s].list, ops[s].snap, ops[s].id, ops[s].data)
  ELSE deleteList(ops[s].list, ops[s].snap, ops[s].id)

\* a and b are completed updates or deletes of one list whose read-then-write
\* sequences overlapped: both read before a wrote, a wrote before b, and b's
\* write is the latest write to the list
Overlapped(a, b) ==
  /\ a # b
  /\ ops[a].pc = "done" /\ ops[b].pc = "done"
  /\ ops[a].kind \in {"update", "delete"}
  /\ ops[b].kind \in {"update", "delete"}
  /\ ops[a].list = ops[b].list
  /\ ops[a].wver > 0 /\ ops[b].wver > 0
  /\ ops[b].rver < ops[a].wver
  /\ ops[a].wver < ops[b].wver
  /\ ops[b].wver = ver[ops[b].list]

\* C5: when two updates or deletes of one list overlap, the list stored after
\* both completed is the one the later writer computed from its stale read;
\* nothing of the earlier writer's result is merged into it.
C5_LastWriteWins ==
  \A a \in Slots, b \in Slots :
    Overlapped(a, b) => ListOf(docs[Uid], ops[b].list) = Effect(b)

\* an update that patched an element and a delete overlapped, the delete
\* wrote last, and the stored list holds the element unpatched: the update's
\* change is lost
C5_Witness ==
  \E a \in Slots, b \in Slots :
    /\ Overlapped(a, b)
    /\ ops[a].kind = "update"
    /\ ops[b].kind = "delete"
    /\ \E i \in 1..Len(ops[a].snap) : ops[a].snap[i].id = ops[a].id
    /\ Effect(a) # ops[a].snap
    /\ ListOf(docs[Uid], ops[a].list) = ops[a].snap
    /\ ListOf(docs[Uid], ops[a].list) # Effect(a)

\* C6: in every reachable state no two elements of one list share an id.
C6_UniqueIds ==
  \A L \in Lists :
    \A i \in 1..Len(ListOf(docs[Uid], L)), j \in 1..Len(ListOf(docs[Uid], L)) :
      i # j => ListOf(docs[Uid], L)[i].id # ListOf(docs[Uid], L)[j].id

\* ------------------------------------------------------------------------
\* Properties of registration and of the route guard
\* ------------------------------------------------------------------------
\* the password policy: at least 8 characters, an uppercase letter, a digit
MeetsPolicy(password) ==
  /\ Len(password) >= 8
  /\ \E i \in 1..Len(password) : password[i] \in UpperCase
  /\ \E i \in 1..Len(password) : password[i] \in Digits

\* the uids that have a profile record with the given email
ProfilesOf(email) ==
  {u \in Uids : docs[u].exists /\ "email" \in DOMAIN docs[u].data
                /\ docs[u].data["email"] = email}

\* C7: a registration whose password meets the policy and whose confirmation
\* equals the password passes both local checks (signup is called), and once
\* signup and createUser have succeeded there is exactly one profile record
\* for it, keyed by the uid signup returned and holding the email.
C7_ValidRegistrationCreatesOneProfile ==
  /\ (/\ handler.kind = "register"
      /\ MeetsPolicy(handler.password)
      /\ handler.confirmPassword = handler.password)
       => handler.pc \in {"signup", "createUser", "registered", "failed"}
  /\ handler.pc = "registered" =>
       /\ docs[handler.uid].exists
       /\ docs[handler.uid].data = createUser(handler.email)
       /\ ProfilesOf(handler.email) = {handler.uid}
       /\ \E a \in accounts :
            a.uid = handler.uid /\ a.email = handler.email

\* a second registration has succeeded: both accounts have their own record
C7_Witness ==
  /\ handler.pc = "registered"
  /\ MeetsPolicy(handler.password)
  /\ handler.confirmPassword = handler.password
  /\ docs[handler.uid].exists
  /\ Cardinality(accounts) = 2
  /\ \A u \in Uids : docs[u].exists

\* C8: a registration whose password violates the policy is rejected by the
\* first local check, whatever the email and the confirmation: an error
\* notification is shown, and neither signup nor createUser is called for
\* it, so no account and no record ever comes from such a password.
C8_WeakPasswordRejectedLocally ==
  /\ (handler.kind = "register" /\ ~MeetsPolicy(handler.password)) =>
       /\ handler.pc = "rejected"
       /\ notification.open
       /\ notification.severity = "error"
  /\ \A a \in accounts : MeetsPolicy(a.password)
  /\ handler.pc = "rejected" =>
       \A u \in Uids : docs[u].exists => \E a \in accounts : a.uid = u

\* a password without a digit has been rejected although the email is free
\* and nothing has ever been registered
C8_Witness ==
  /\ handler.pc = "rejected"
  /\ handler.kind = "register"
  /\ ~MeetsPolicy(handler.password)
  /\ Len(handler.password) >= 8
  /\ notification = WeakPasswordNotification
  /\ accounts = {}
  /\ \A u \in Uids : ~docs[u].exists

\* createUser has just resolved in handleRegister
Registers == handler.pc = "createUser" /\ handler'.pc = "registered"

\* C9 as stated: a successful registration creates the record and its
\* navigation ends with the dashboard rendered.
C9_Original ==
  [][Registers =>
       /\ docs'[handler.uid].exists
       /\ path' = "/dashboard"
       /\ view' = "Dashboard"]_vars

\* C9 amended: a successful registration creates the record and navigates
\* to /dashboard; the navigation ends with the dashboard rendered when
\* currentUser is set and hasSeenSplash is set, at the splash screen (which
\* sets hasSeenSplash) when currentUser is set and hasSeenSplash is not, and
\* at the login view when currentUser is still null.
C9_RegistrationNavigation ==
  [][Registers =>
       /\ docs'[handler.uid].exists
       /\ target' = "/dashboard"
       /\ (currentUser # NoUser /\ hasSeenSplash) =>
            (path' = "/dashboard" /\ view' = "Dashboard")
       /\ (currentUser # NoUser /\ ~hasSeenSplash) =>
            (path' = "/" /\ view' = "LandingPage" /\ hasSeenSplash')
       /\ currentUser = NoUser =>
            (path' = "/login" /\ view' = "Login"
             /\ hasSeenSplash' = hasSeenSplash)]_vars

\* a registration has succeeded for the signed-in user and its navigation
\* ended at the splash screen
C9_Witness ==
  /\ handler.pc = "registered"
  /\ currentUser = handler.uid
  /\ docs[handler.uid].exists
  /\ target = "/dashboard"
  /\ path = "/"
  /\ view = "LandingPage"
  /\ hasSeenSplash

\* a guarded view is on screen only for a signed-in user, at its own path
GuardedOnlyForUser ==
  view \in GuardedViews =>
    /\ currentUser # NoUser
    /\ ~loading
    /\ path \in GuardedPaths
    /\ view = GuardedView(path)

\* a step that ends with nobody signed in, after a guarded path was asked
\* for or while one was shown, ends at the login view
NullUserSentToLogin ==
  (/\ currentUser' = NoUser
   /\ ~loading'
   /\ \/ target' \in GuardedPaths /\ (target' # target \/ path' # path)
      \/ path \in GuardedPaths)
    => (path' = "/login" /\ view' = "Login")

\* C10: a guarded view is rendered only when currentUser is non-null; when
\* currentUser is null, a visit to any of the six guarded paths is
\* redirected to /login and the guarded view is not rendered.
C10_GuardedViewsNeedUser ==
  []GuardedOnlyForUser /\ [][NullUserSentToLogin]_vars

\* nobody is signed in, /income was asked for, and the login view is shown
C10_Witness ==
  /\ ~loading
  /\ currentUser = NoUser
  /\ target = "/income"
  /\ path = "/login"
  /\ view = "Login"

\* ------------------------------------------------------------------------
\* Properties of error handling
\* ------------------------------------------------------------------------
\* the line the catch clause of the function under way logs for error e
LoggedBy(fn, e) == [label |-> ErrorLabel(fn), error |-> e]

\* C11: whenever the backend call of a provider function (the fifteen
\* data-access functions and signup, login, logout) has been rejected with an
\* error, the function has logged that error and thrown that same error to
\* its caller; it has not returned, so the handler has not completed.
C11_ErrorsSurfaceUnchanged ==
  vcall.raised # NoError =>
    /\ vcall.fn \in DataFunctions \cup SessionFunctions
    /\ vcall.pc = "ended"
    /\ vcall.outcome \in {"caught", "escaped"}
    /\ vcall.error = vcall.raised
    /\ Len(console) >= 1
    /\ console[1] = LoggedBy(vcall.fn, vcall.raised)

\* updateIncome has read the document and its write was rejected: the error
\* reached the handler and the document is as it was read
C11_Witness ==
  /\ vcall.fn = "updateIncome"
  /\ vcall.raised = FirebaseError(StoreUnavailable)
  /\ vcall.error = vcall.raised
  /\ Len(vcall.snap) > 0
  /\ ListOf(docs[Uid], "income") = vcall.snap

\* an error notification is on screen: the Login view's, or the popup of
\* UserProfile or the Dashboard
ErrorShown ==
  \/ notification.open /\ notification.severity = "error"
  \/ ui.popup.open /\ ui.popup.severity = "error"

\* C12: in the login, profile, dashboard, purchases, paychecks and goals
\* views, no error thrown by a provider function leaves a handler uncaught,
\* and every such error has been turned into an error notification on screen.
C12_ViewHandlersCatch ==
  /\ unhandled = NoError
  /\ (vcall.error # NoError /\ vcall.view \in DataViews \cup {"Login"}) =>
       /\ vcall.outcome = "caught"
       /\ ErrorShown

\* ------------------------------------------------------------------------
\* Properties of the writes
\* ------------------------------------------------------------------------
\* the setDoc awaited by the function under way resolves in this step
SetDocApplied ==
  /\ vcall.pc = "setDoc"
  /\ vcall' # vcall
  /\ vcall'.raised = NoError

\* the fields the merge write under way names
WrittenFields ==
  IF vcall.fn = "updateUser" THEN DOMAIN vcall.data ELSE {FnList(vcall.fn)}

\* in this step the document of user u keeps every field outside F with its
\* value and gains no field outside F
SameOutside(u, F) ==
  /\ \A k \in DOMAIN docs[u].data \ F :
       /\ k \in DOMAIN docs'[u].data
       /\ docs'[u].data[k] = docs[u].data[k]
  /\ DOMAIN docs'[u].data \subseteq DOMAIN docs[u].data \cup F

\* C13: an add is a merge write: it changes only its own list field of the
\* user's document and leaves the profile fields (email, created, name,
\* username, dob, picture) and the other two lists exactly as they were, the
\* list itself keeping its elements and holding the new one; updateUser
\* changes only the fields it is given, to the values it is given; no other
\* user's document changes
C13_MergeWrite ==
  [][(SetDocApplied /\ vcall.fn # "createUser") =>
       /\ docs'[vcall.uid].exists
       /\ SameOutside(vcall.uid, WrittenFields)
       /\ \A u \in Uids \ {vcall.uid} : docs'[u] = docs[u]
       /\ vcall.fn = "updateUser" =>
            \A k \in WrittenFields : docs'[vcall.uid].data[k] = vcall.data[k]
       /\ FnKind(vcall.fn) = "add" =>
            LET old == ListOf(docs[vcall.uid], FnList(vcall.fn))
                new == ListOf(docs'[vcall.uid], FnList(vcall.fn))
            IN  /\ Len(old) <= Len(new)
                /\ Len(new) <= Len(old) + 1
                /\ SubSeq(new, 1, Len(old)) = old
                /\ \E i \in 1..Len(new) : new[i] = vcall.elem
     ]_vars

\* an expense was added to the filled document: the expenses list has grown
\* and the profile and the other lists are those of the filled document
C13_Witness ==
  /\ vcall.view = "AddPurchase"
  /\ vcall.handler = "handleSubmit"
  /\ vcall.fn = "getExpenses"
  /\ Len(ListOf(docs[Uid], "expenses")) = 2
  /\ \A k \in DOMAIN FilledDoc.data \ {"expenses"} :
       /\ k \in DOMAIN docs[Uid].data
       /\ docs[Uid].data[k] = FilledDoc.data[k]

\* ------------------------------------------------------------------------
\* Properties of a user without a document
\* ------------------------------------------------------------------------
\* the backend call awaited by the function under way resolves in this step
\* for a user who has no document
ResolvesWithoutDocument(pc) ==
  /\ vcall.pc = pc
  /\ vcall' # vcall
  /\ vcall'.raised = NoError
  /\ ~docs[vcall.uid].exists

\* C20: for a user id that has no document, getUserData and every list get
\* return null; every update and delete returns after its read with no write
\* issued, no document created and no error raised; an add creates the
\* document, which holds exactly the one-element list
C20_NoDocument ==
  [][/\ ResolvesWithoutDocument("getDoc") =>
          /\ vcall'.ret = RetNull
          /\ vcall'.pc # "updateDoc"
          /\ vcall'.error = NoError
          /\ vcall'.fn # vcall.fn \/ vcall'.outcome = "completed"
          /\ docs' = docs
          /\ ver' = ver
          /\ console' = console
          /\ unhandled' = unhandled
     /\ (ResolvesWithoutDocument("setDoc") /\ FnKind(vcall.fn) = "add") =>
          /\ docs'[vcall.uid] =
               setDoc(NoDoc, Field(FnList(vcall.fn), <<vcall.elem>>))
          /\ \A u \in Uids \ {vcall.uid} : docs'[u] = docs[u]
          /\ vcall'.error = NoError
     ]_vars

\* handleSubmit of a list view has edited an item for a user without a
\* document: the update and the get after it returned, nothing was thrown
\* and there is still no document
C20_Witness ==
  /\ vcall.handler = "handleSubmit"
  /\ vcall.view \in ListViews
  /\ vcall.id # ""
  /\ vcall.pc = "ended"
  /\ vcall.outcome = "completed"
  /\ vcall.rets = <<Undefined, RetNull>>
  /\ ~docs[Uid].exists
  /\ ui.items = <<>>

\* ------------------------------------------------------------------------
\* Properties of an add that overlaps an update or a delete
\* ------------------------------------------------------------------------
\* arr holds the element e
Holds(arr, e) == \E i \in 1..Len(arr) : arr[i] = e

\* a is a completed add and b a completed update or delete of the same list;
\* b read the list before a's write was applied, when it did not hold a's
\* element, and wrote after it, and b's write is the latest write to the list
AddOverlapped(a, b) ==
  /\ a # b
  /\ ops[a].pc = "done" /\ ops[b].pc = "done"
  /\ ops[a].kind = "add"
  /\ ops[b].kind \in {"update", "delete"}
  /\ ops[a].list = ops[b].list
  /\ ops[b].rver < ops[a].wver
  /\ ops[a].wver < ops[b].wver
  /\ ops[b].wver = ver[ops[b].list]
  /\ ~Holds(ops[b].snap, ops[a].elem)

\* C17: an update or delete writes back the whole list computed from its own
\* earlier read, so an element appended by an add to the same list that
\* completed between that read and that write is absent from the stored list
\* once the write has completed, although the add returned without error
C17_AddLostToStaleWriteBack ==
  \A a \in Slots, b \in Slots :
    AddOverlapped(a, b) =>
      /\ ListOf(docs[Uid], ops[b].list) = Effect(b)
      /\ ~Holds(ListOf(docs[Uid], ops[b].list), ops[a].elem)

\* a delete read the expenses list, an add appended an expense and
\* completed, then the delete wrote back: the added expense is not stored
C17_Witness ==
  \E a \in Slots, b \in Slots :
    /\ AddOverlapped(a, b)
    /\ ops[b].kind = "delete"
    /\ ops[a].list = "expenses"
    /\ Len(ops[b].snap) > 0
    /\ ~Holds(ListOf(docs[Uid], "expenses"), ops[a].elem)

\* ------------------------------------------------------------------------
\* Properties of delete
\* ------------------------------------------------------------------------
\* the updateDoc awaited by the delete under way resolves in this step
DeleteApplied ==
  /\ vcall.pc = "updateDoc"
  /\ FnKind(vcall.fn) = "delete"
  /\ vcall' # vcall
  /\ vcall'.raised = NoError

\* the indices of arr whose element does not have the id
KeptIndices(arr, id) == {i \in 1..Len(arr) : arr[i].id # id}

\* new holds exactly the elements of old that do not have the id, each at the
\* place its rank among them gives it
KeepsOthersInOrder(old, new, id) ==
  LET keep == KeptIndices(old, id)
  IN  /\ Len(new) = Cardinality(keep)
      /\ \A i \in keep : new[Cardinality({j \in keep : j <= i})] = old[i]

\* C18: delete(userId, id) removes exactly the elements whose id equals the
\* given id and keeps every other element in its original relative order;
\* when no element has that id the call raises no error and the list's
\* contents are unchanged
C18_DeleteFiltersById ==
  [][DeleteApplied =>
       LET L == FnList(vcall.fn)
           old == ListOf(docs[vcall.uid], L)
           new == ListOf(docs'[vcall.uid], L)
       IN  /\ old = vcall.snap
           /\ KeepsOthersInOrder(old, new, vcall.id)
           /\ \A i \in 1..Len(new) : new[i].id # vcall.id
           /\ vcall'.error = NoError
           /\ unhandled' = NoError
           /\ console' = console
           /\ KeptIndices(old, vcall.id) = 1..Len(old) => new = old
     ]_vars

\* handleDelete of the goals view removed the first of three goals: the two
\* added since are stored in the order they were added
C18_Witness ==
  /\ vcall.view = "AddGoal"
  /\ vcall.handler = "handleDelete"
  /\ vcall.id = "0"
  /\ vcall.fn = "getUserGoals"
  /\ ver["goals"] = 3
  /\ Len(ListOf(docs[Uid], "goals")) = 2
  /\ ListOf(docs[Uid], "goals")[1].id = "1"
  /\ ListOf(docs[Uid], "goals")[2].id = "2"

\* ------------------------------------------------------------------------
\* Properties of the lifecycle of the user's document
\* ------------------------------------------------------------------------
\* arr holds an element with the id
HoldsId(arr, id) == \E i \in 1..Len(arr) : arr[i].id = id

\* C15: once a user's document exists no operation destroys it: the document
\* never becomes absent, and an element of a list stays in the list (as it
\* is, or replaced by an update under its id) unless the step completes a
\* delete of that list that names its id
C15_NothingDestroyed ==
  [][/\ \A u \in Uids : docs[u].exists => docs'[u].exists
     /\ \A L \in Lists :
          \A i \in 1..Len(ListOf(docs[Uid], L)) :
            LET e == ListOf(docs[Uid], L)[i]
            IN  \/ HoldsId(ListOf(docs'[Uid], L), e.id)
                \/ \E s \in Slots : /\ Completes(s, "delete")
                                    /\ ops[s].list = L
                                    /\ ops[s].id = e.id
    ]_vars

\* ------------------------------------------------------------------------
\* The three families called with the same arguments
\* ------------------------------------------------------------------------
\* records every family accepts
CommonRecords == {[name |-> "Car", amount |-> 4], [name |-> "Trip", amount |-> 5]}

\* the document after add(Uid, data) of list L, called at time t, returned
added(doc, L, data, t) ==
  setDocMerge(doc, Field(L, arrayUnion(doc, L, addElement(L, data, t))))

\* the document after update(Uid, id, updatedData) of list L returned
updated(doc, L, id, updatedData) ==
  IF doc.exists
  THEN updateDoc(doc, Field(L, updateList(L, ListOf(doc, L), id, updatedData)))
  ELSE doc

\* the document after delete(Uid, id) of list L returned
deleted(doc, L, id) ==
  IF doc.exists
  THEN updateDoc(doc, Field(L, deleteList(L, ListOf(doc, L), id)))
  ELSE doc

\* addIncome, addExpenses and addUserGoal are called with the same record,
\* one after the other within one tick of the clock
sameAdd(data) ==
  /\ calls < MaxCalls
  /\ calls' = calls + 1
  /\ docs' = [docs EXCEPT ![Uid] =
       added(added(added(@, "income", data, now), "expenses", data, now),
             "goals", data, now)]
  /\ UNCHANGED <<ver, now, ops, appVars>>

\* updateIncome, updateExpense and updateUserGoal are called with the same
\* id and patch
sameUpdate(id, updatedData) ==
  /\ calls < MaxCalls
  /\ calls' = calls + 1
  /\ docs' = [docs EXCEPT ![Uid] =
       updated(updated(updated(@, "income", id, updatedData),
                       "expenses", id, updatedData), "goals", id, updatedData)]
  /\ UNCHANGED <<ver, now, ops, appVars>>

\* deleteIncome, deleteExpense and deleteUserGoal are called with the same id
sameDelete(id) ==
  /\ calls < MaxCalls
  /\ calls' = calls + 1
  /\ docs' = [docs EXCEPT ![Uid] =
       deleted(deleted(deleted(@, "income", id), "expenses", id), "goals", id)]
  /\ UNCHANGED <<ver, now, ops, appVars>>

\* getIncome, getExpenses and getUserGoals are called with the same limit;
\* what they returned is kept in that order
sameGet(num) ==
  /\ vcall' = [NoCall EXCEPT
       !.pc = "ended", !.fn = "get", !.uid = Uid,
       !.rets = <<getIncome(docs[Uid], num), getExpenses(docs[Uid], num, ""),
                  getUserGoals(docs[Uid], num)>>]
  /\ UNCHANGED <<storeVars, sessionVars, routeVars, loginVars, ui, console,
                 unhandled>>

FamilyInit == Init

FamilyNext ==
  \/ Tick
  \/ \E data \in CommonRecords : sameAdd(data)
  \/ \E id \in Ids : \E updatedData \in Patches(id) : sameUpdate(id, updatedData)
  \/ \E id \in Ids : sameDelete(id)
  \/ \E num \in {All, Num(1)} : sameGet(num)

FamilySpec == FamilyInit /\ [][FamilyNext]_vars

\* the three gets were called and returned
Got == vcall.fn = "get" /\ Len(vcall.rets) = 3

WithActive(arr) ==
  [i \in 1..Len(arr) |-> Merge(arr[i], [active |-> TRUE])]

\* what getIncome returns where getUserGoals returns r
IncomeFor(r) ==
  IF r.isNull \/ Len(r.val) = 0 THEN RetNull ELSE RetList(WithActive(r.val))

StoredElements(L) ==
  CASE L = "expenses" ->
         {[name |-> "Lunch", amount |-> 4, category |-> "Dining", id |-> "1"],
          [name |-> "Snack", amount |-> 5, category |-> "dining", id |-> "2"],
          [name |-> "Bus", amount |-> 6, category |-> "Travel", id |-> "3"],
          [name |-> "Pen", amount |-> 7, category |-> "", id |-> "4"],
          [name |-> "Fee", amount |-> 8, id |-> "5"]}
    [] L = "income" ->
         {[source |-> "Job", amount |-> 4, id |-> "1", active |-> TRUE],
          [source |-> "Gift", amount |-> 5, id |-> "2", active |-> TRUE]}
    [] L = "goals" ->
         {[name |-> "Car", amount |-> 4, id |-> "1"],
          [name |-> "Trip", amount |-> 5, id |-> "2"]}

\* the lists of up to MaxLen of these elements, none of them twice
StoredLists(L) ==
  UNION {{arr \in [1..n -> StoredElements(L)] :
            \A i \in 1..n, j \in 1..n : arr[i] = arr[j] => i = j} :
         n \in 0..MaxLen}

\* the limits and the categories a caller passes
Limits == {All} \cup {Num(n) : n \in 0..(MaxLen + 1)}
Categories == {"", "dining", "DINING", "Travel", "Books"}

\* get(Uid, num, category) of a family, run to its end
get(fn, doc, num, category) ==
  CASE fn = "getIncome"    -> getIncome(doc, num)
    [] fn = "getExpenses"  -> getExpenses(doc, num, category)
    [] fn = "getUserGoals" -> getUserGoals(doc, num)

\* a get is called and returns
callGet(fn, num, category) ==
  /\ vcall' = [NoCall EXCEPT
       !.pc = "ended", !.fn = fn, !.uid = Uid,
       !.data = [num |-> num, category |-> category],
       !.ret = get(fn, docs[Uid], num, category)]
  /\ UNCHANGED <<storeVars, sessionVars, routeVars, loginVars, ui, console,
                 unhandled>>

\* the user's document as createUser wrote it, without a list or with one
\* list stored in it
GetInit ==
  /\ docs \in
       {[u \in Uids |-> IF u = Uid THEN setDoc(NoDoc, createUser("a@b.com"))
                        ELSE NoDoc]}
       \cup {[u \in Uids |->
                IF u = Uid
                THEN setDoc(NoDoc, Merge(createUser("a@b.com"), Field(L, arr)))
                ELSE NoDoc] : <<L, arr>> \in UNION {{<<M, a>> : a \in StoredLists(M)} : M \in Lists}}
  /\ ver = [L \in Lists |-> 0]
  /\ now = 1
  /\ calls = 0
  /\ ops = [s \in Slots |-> Idle]
  /\ NobodyThere

GetNext ==
  \/ \E fn \in {"getIncome", "getUserGoals"}, num \in Limits : callGet(fn, num, "")
  \/ \E num \in Limits, category \in Categories : callGet("getExpenses", num, category)

GetSpec == GetInit /\ [][GetNext]_vars

\* a get of the user's list has returned
Answered ==
  /\ vcall.pc = "ended"
  /\ vcall.fn \in {"getIncome", "getExpenses", "getUserGoals"}
  /\ docs[Uid].exists

\* the category strings that differ in letter case only
CaseClasses == {{"Dining", "dining", "DINING"}, {"Travel", "travel", "TRAVEL"}}

SameIgnoringCase(a, b) == a = b \/ \E c \in CaseClasses : a \in c /\ b \in c

\* the indices of the expenses that have a category equal to the given one,
\* letter case ignored
Matching(arr, category) ==
  {i \in 1..Len(arr) :
     /\ "category" \in DOMAIN arr[i]
     /\ arr[i].category # ""
     /\ SameIgnoringCase(arr[i].category, category)}

\* the elements of arr at the indices in S, in their order in arr
Pick(arr, S) ==
  [k \in 1..Cardinality(S) |->
     arr[CHOOSE i \in S : Cardinality({j \in S : j <= i}) = k]]

\* the first n elements of arr, all of them when there are fewer
FirstN(arr, n) == [i \in 1..(IF n < Len(arr) THEN n ELSE Len(arr)) |-> arr[i]]

\* the list the get that returned is said to return
Expected ==
  LET arr == ListOf(docs[Uid], FnList(vcall.fn))
      kept == IF vcall.fn = "getExpenses" /\ vcall.data.category # ""
              THEN Pick(arr, Matching(arr, vcall.data.category))
              ELSE arr
  IN  IF vcall.data.num.all THEN kept ELSE FirstN(kept, vcall.data.num.n)

AppLive == AppInit /\ [][AppNext]_vars /\ WF_vars(authStateResolved)

\* this step leaves the state as handleAuthStateChanged sets it when called
\* with the user the service has signed in
SetByCallback == currentUser' = authUser' /\ ~loading'

\* this step loads the page again: AuthProvider's state starts over
Remounted == ~loading /\ loading' /\ currentUser' = NoUser

\* C16: the in-memory current user follows the authentication service:
\* currentUser changes only in the auth-state-change callback, to the value
\* the service reports (a page load starts it over as null until the
\* callback has run); every change of the signed-in user, by a successful
\* login, registration or logout, reaches the callback; so currentUser
\* eventually equals whoever is signed in at the service: the signed-in user
\* after a login or registration, null after a logout
C16_CurrentUserFollowsAuth ==
  /\ [][currentUser' # currentUser => (SetByCallback \/ Remounted)]_vars
  /\ [][authUser' # authUser => SetByCallback]_vars
  /\ \A u \in Uids \cup {NoUser} : (authUser = u) ~> (currentUser = u)

\* handleLogin has returned from login and the current user is the user the
\* service signed in
C16_Witness ==
  /\ handler.pc = "loggedIn"
  /\ authUser # NoUser
  /\ authUser = handler.uid
  /\ currentUser = authUser
  /\ ~loading

\* ------------------------------------------------------------------------
\* Properties of the order of the steps of the handlers
\* ------------------------------------------------------------------------
\* handleRegister moves to position pc in this step
RegisterReaches(pc) ==
  /\ handler' # handler
  /\ handler'.kind = "register"
  /\ handler'.pc = pc

\* the messages of the errors signup and createUser can fail with
RegistrationFailures == {EmailInUse, AuthUnavailable, StoreUnavailable}

\* C21: the steps of a registration happen in a fixed order: the policy is
\* tested before the confirmation, and signup is called only when both checks
\* pass; createUser is called only after signup succeeded, for the uid and
\* email of the account it made; the navigation to /dashboard happens only
\* when createUser succeeded; when signup or createUser fails nothing is
\* navigated and an error notification with the message of the failure is
\* shown
C21_RegistrationOrder ==
  [][/\ RegisterReaches("rejected") =>
          /\ ~MeetsPolicy(handler'.password)
          /\ notification' = WeakPasswordNotification
          /\ UNCHANGED <<target, path, view, accounts, docs>>
     /\ RegisterReaches("mismatch") =>
          /\ MeetsPolicy(handler'.password)
          /\ handler'.confirmPassword # handler'.password
          /\ notification' = MismatchNotification
          /\ UNCHANGED <<target, path, view, accounts, docs>>
     /\ RegisterReaches("signup") =>
          /\ MeetsPolicy(handler'.password)
          /\ handler'.confirmPassword = handler'.password
          /\ UNCHANGED <<target, path, view, accounts, docs>>
     /\ RegisterReaches("createUser") =>
          /\ handler.pc = "signup"
          /\ accounts' \ accounts =
               {[email |-> handler.email, password |-> handler.password,
                 uid |-> handler'.uid]}
          /\ authUser' = handler'.uid
          /\ UNCHANGED <<target, path, docs>>
     /\ RegisterReaches("registered") =>
          /\ handler.pc = "createUser"
          /\ docs'[handler.uid] = setDoc(NoDoc, createUser(handler.email))
          /\ \E a \in accounts : a.uid = handler.uid /\ a.email = handler.email
          /\ notification' = CreatedNotification
          /\ target' = "/dashboard"
     /\ RegisterReaches("failed") =>
          /\ handler.pc \in {"signup", "createUser"}
          /\ \E m \in RegistrationFailures :
               notification' = RegistrationFailedNotification(m)
          /\ notification'.severity = "error"
          /\ UNCHANGED <<target, path, view, accounts, docs>>
    ]_vars

\* createUser failed after signup had succeeded: the failure's message is
\* shown and the Login view is still on screen
C21_Witness ==
  /\ handler.kind = "register"
  /\ handler.pc = "failed"
  /\ handler.uid # NoUser
  /\ notification = RegistrationFailedNotification(StoreUnavailable)
  /\ view = "Login"
  /\ target # "/dashboard"

\* ------------------------------------------------------------------------
\* Properties of the loading state of AuthProvider
\* ------------------------------------------------------------------------
\* while AuthProvider is loading none of its children is rendered: no view is
\* on screen and no handler of a view is under way
NothingRenderedWhileLoading ==
  loading =>
    /\ view = "none"
    /\ currentUser = NoUser
    /\ handler = NoHandler
    /\ ~signingOut
    /\ vcall = NoCall

\* a step that leaves AuthProvider loading evaluates no route guard and
\* issues no call: the flag of the splash screen, the store and the accounts
\* are as before and the location is the one asked for
NothingEvaluatedWhileLoading ==
  (loading /\ loading') =>
    /\ hasSeenSplash' = hasSeenSplash
    /\ path' = target'
    /\ UNCHANGED <<storeVars, accounts, authUser, currentUser, loginVars>>

\* loading ends only by the callback's first call, which delivers the user
\* the service has
LoadingEndsInCallback ==
  (loading /\ ~loading') => (authStateResolved /\ currentUser' = authUser)

\* C22: AuthProvider renders none of its children, so that no route guard is
\* evaluated and no data-access call is issued, until the first auth-state
\* callback has delivered the current user; once loading has become false no
\* step of the mounted application makes it true again (only loading the
\* page anew starts over)
C22_NoChildrenWhileLoading ==
  /\ []NothingRenderedWhileLoading
  /\ [][NothingEvaluatedWhileLoading]_vars
  /\ [][LoadingEndsInCallback]_vars
  /\ [][(~loading /\ loading') => Reload]_vars

\* the page was loaded again by a signed-in visitor who then asked for the
\* dashboard: the callback has not run, nothing is on screen and the guard
\* has not set the flag of the splash screen
C22_Witness ==
  /\ loading
  /\ authUser # NoUser
  /\ target = "/dashboard"
  /\ path = "/dashboard"
  /\ view = "none"
  /\ ~hasSeenSplash

\* ------------------------------------------------------------------------
\* Properties of the splash redirect
\* ------------------------------------------------------------------------
\* this step renders the routes for a guarded path that was asked for
GuardedVisit ==
  /\ ~loading'
  /\ target' \in GuardedPaths
  /\ <<target', path', view'>> # <<target, path, view>>

\* C23: ProtectedRoute redirects an authenticated visitor to the splash
\* screen only while the hasSeenSplash flag is unset, and sets the flag in
\* that same step; nothing clears the flag, so the redirect to the splash
\* screen happens at most once and every later authenticated visit to a
\* guarded route renders the view asked for; an unauthenticated visit never
\* sets the flag
C23_SplashRedirectOnce ==
  [][/\ hasSeenSplash => hasSeenSplash'
     /\ (GuardedVisit /\ path' = "/") =>
          /\ ~hasSeenSplash
          /\ hasSeenSplash'
          /\ currentUser' # NoUser
          /\ view' = "LandingPage"
     /\ (~hasSeenSplash /\ hasSeenSplash') =>
          /\ GuardedVisit
          /\ currentUser' # NoUser
          /\ path' = "/"
     /\ (GuardedVisit /\ hasSeenSplash /\ currentUser' # NoUser) =>
          /\ path' = target'
          /\ view' = GuardedView(target')
     /\ currentUser' = NoUser => hasSeenSplash' = hasSeenSplash
    ]_vars

\* handleLogin's navigation to /dashboard was redirected to the splash
\* screen, which set the flag
C23_Witness ==
  /\ handler.pc = "loggedIn"
  /\ currentUser # NoUser
  /\ target = "/dashboard"
  /\ path = "/"
  /\ view = "LandingPage"
  /\ hasSeenSplash

\* ------------------------------------------------------------------------
\* Properties of handleLogout
\* ------------------------------------------------------------------------
\* handleLogout is under way
LoggingOut == vcall.handler = "handleLogout" /\ vcall.pc = "auth"

\* C24: handleLogout navigates to /login only after logout() has resolved:
\* calling it navigates nowhere, and when logout() resolves nobody is signed
\* in and the Login view is shown at /login; if logout() throws, the error
\* is logged by the handler, no navigation happens and the user stays signed
\* in on the guarded view shown
C24_LogoutThenNavigate ==
  [][/\ (~LoggingOut /\ LoggingOut') => UNCHANGED <<routeVars, sessionVars>>
     /\ (LoggingOut /\ vcall' # vcall /\ vcall'.raised = NoError) =>
          /\ vcall'.outcome = "completed"
          /\ authUser' = NoUser
          /\ target' = "/login"
          /\ path' = "/login"
          /\ view' = "Login"
     /\ (LoggingOut /\ vcall' # vcall /\ vcall'.raised # NoError) =>
          /\ vcall'.outcome = "caught"
          /\ unhandled' = NoError
          /\ Len(console') >= 1
          /\ console'[Len(console')] =
               [label |-> "Failed to logout:", error |-> vcall'.raised]
          /\ UNCHANGED <<routeVars, sessionVars>>
          /\ view' \in GuardedViews
    ]_vars

\* logout() threw in handleLogout: the user is still signed in on the guarded
\* view and the error has been logged
C24_Witness ==
  /\ vcall.handler = "handleLogout"
  /\ vcall.outcome = "caught"
  /\ vcall.raised = FirebaseError(AuthUnavailable)
  /\ view \in GuardedViews
  /\ path = PathOf(view)
  /\ currentUser = Uid
  /\ Len(console) = 2
  /\ console[2].label = "Failed to logout:"

\* ------------------------------------------------------------------------
\* Dashboard.fetchData with its three fetches settling in any order
\* ------------------------------------------------------------------------
\* the fetches fetchData hands to Promise.all
DashboardFetches == {"getExpenses", "getUserGoals", "getIncome"}

\* the state of one fetch
PendingFetch == [st |-> "pending", ret |-> RetNull, error |-> NoError]
Fulfilled(ret) == [st |-> "fulfilled", ret |-> ret, error |-> NoError]
Rejected(e) == [st |-> "rejected", ret |-> RetNull, error |-> e]

\* a fetch of the run of fetchData under way or ended has not settled
FetchPending(fn) ==
  /\ vcall.handler = "fetchData"
  /\ vcall.pc \in {"Promise.all", "ended"}
  /\ vcall.data[fn].st = "pending"

\* the effect of the Dashboard runs fetchData: loading is set and the three
\* fetches are started
fetchDataBegins ==
  /\ view = "Dashboard"
  /\ currentUser # NoUser
  /\ ~loading
  /\ vcall.pc \in {"idle", "ended"}
  /\ \A fn \in DashboardFetches : ~FetchPending(fn)
  /\ calls < MaxCalls
  /\ calls' = calls + 1
  /\ vcall' = [NoCall EXCEPT
       !.pc = "Promise.all", !.view = "Dashboard", !.handler = "fetchData",
       !.catches = TRUE, !.uid = currentUser,
       !.data = [fn \in DashboardFetches |-> PendingFetch]]
  /\ ui' = [ui EXCEPT !.loading = TRUE]
  /\ console' = <<>>
  /\ unhandled' = NoError
  /\ UNCHANGED <<docs, ver, now, ops, sessionVars, routeVars, loginVars>>

\* a fetch that rejects and a handler without its finally clause
fetchRejects_noFinally(fn, e) ==
  /\ FetchPending(fn)
  /\ LET r == rethrow(ErrorLabel(fn), e)
         data == [vcall.data EXCEPT ![fn] = Rejected(r.thrown)]
     IN  /\ console' = Append(console, r.log)
         /\ IF vcall.pc = "Promise.all"
            THEN /\ vcall' = [vcall EXCEPT
                      !.data = data, !.pc = "ended", !.fn = fn, !.raised = e,
                      !.error = r.thrown, !.outcome = "caught"]
                 /\ ui' = [ui EXCEPT !.popup = FetchDataFailedNotification]
            ELSE /\ vcall' = [vcall EXCEPT !.data = data]
                 /\ ui' = ui
  /\ UNCHANGED <<storeVars, sessionVars, routeVars, loginVars, unhandled>>

\* a fetch returns; when it is the last of the three, Promise.all resolves
\* and fetchData sets the cards of the non-empty lists and ends loading
fetchResolves(fn) ==
  /\ FetchPending(fn)
  /\ LET data == [vcall.data EXCEPT
                    ![fn] = Fulfilled(getList(fn, docs[vcall.uid]))]
     IN  IF /\ vcall.pc = "Promise.all"
            /\ \A f \in DashboardFetches : data[f].st = "fulfilled"
         THEN /\ vcall' = [vcall EXCEPT
                   !.data = data, !.pc = "ended", !.outcome = "completed",
                   !.rets = <<data["getExpenses"].ret, data["getUserGoals"].ret,
                              data["getIncome"].ret>>]
              /\ ui' = [ui EXCEPT
                   !.cards = [L \in Lists |->
                      IF lastOf(data[GetFn(L)].ret) # <<>>
                      THEN lastOf(data[GetFn(L)].ret) ELSE ui.cards[L]],
                   !.loading = FALSE]
         ELSE /\ vcall' = [vcall EXCEPT !.data = data]
              /\ ui' = ui
  /\ UNCHANGED <<storeVars, sessionVars, routeVars, loginVars, console,
                 unhandled>>

\* a fetch rejects: its function logs and rethrows; the first rejection
\* rejects Promise.all, fetchData's catch opens the notification and its
\* finally ends loading; a later one is only logged
fetchRejects(fn, e) ==
  /\ FetchPending(fn)
  /\ LET r == rethrow(ErrorLabel(fn), e)
         data == [vcall.data EXCEPT ![fn] = Rejected(r.thrown)]
     IN  /\ console' = Append(console, r.log)
         /\ IF vcall.pc = "Promise.all"
            THEN /\ vcall' = [vcall EXCEPT
                      !.data = data, !.pc = "ended", !.fn = fn, !.raised = e,
                      !.error = r.thrown, !.outcome = "caught"]
                 /\ ui' = [ui EXCEPT !.popup = FetchDataFailedNotification,
                                     !.loading = FALSE]
            ELSE /\ vcall' = [vcall EXCEPT !.data = data]
                 /\ ui' = ui
  /\ UNCHANGED <<storeVars, sessionVars, routeVars, loginVars, unhandled>>

\* the registered user is signed in at the Dashboard; the document is absent,
\* as createUser wrote it, or filled
DashInit ==
  /\ ViewInit
  /\ view = "Dashboard"

DashNext ==
  \/ fetchDataBegins
  \/ \E fn \in DashboardFetches : fetchResolves(fn)
  \/ \E fn \in DashboardFetches : fetchRejects(fn, FirebaseError(StoreUnavailable))

DashSpec == DashInit /\ [][DashNext]_vars

\* ------------------------------------------------------------------------
\* Properties of the Dashboard's loading flag
\* ------------------------------------------------------------------------
\* Promise.all of the run under way is pending: no fetch has failed and not
\* all have succeeded
FetchesPending == vcall.handler = "fetchData" /\ vcall.pc = "Promise.all"

\* Promise.all has settled: all three fetches succeeded, or one failed
FetchesSettled == vcall.handler = "fetchData" /\ vcall.pc = "ended"

\* C25: the Dashboard's loading flag is true while its three parallel
\* fetches are pending and false once they have settled, whether all
\* succeeded or one failed; on failure an error notification is opened and
\* the three cards keep what they showed, their default texts when no
\* earlier fetch succeeded; on success the card of every non-empty list
\* shows its last element
C25_DashboardLoading ==
  /\ [](FetchesPending =>
          /\ ui.loading
          /\ \A fn \in DashboardFetches : vcall.data[fn].st # "rejected"
          /\ \E fn \in DashboardFetches : vcall.data[fn].st = "pending")
  /\ [](FetchesSettled =>
          /\ ~ui.loading
          /\ \/ \A fn \in DashboardFetches : vcall.data[fn].st = "fulfilled"
             \/ \E fn \in DashboardFetches : vcall.data[fn].st = "rejected")
  /\ [][(FetchesPending /\ FetchesSettled' /\ vcall'.raised # NoError) =>
          /\ ui'.popup.open
          /\ ui'.popup.severity = "error"
          /\ ui'.cards = ui.cards
          /\ unhandled' = NoError]_vars
  /\ [][(FetchesPending /\ FetchesSettled' /\ vcall'.raised = NoError) =>
          \A L \in Lists :
            LET arr == ListOf(docs[Uid], L)
            IN  ui'.cards[L] = IF Len(arr) > 0 THEN <<arr[Len(arr)]>>
                               ELSE ui.cards[L]]_vars
  /\ []((FetchesSettled /\ vcall.raised # NoError /\ calls = 1) =>
          ui.cards = [L \in Lists |-> <<>>])

\* the first run of fetchData failed on its income fetch while the goals
\* fetch was still pending: loading has ended, the notification is open and
\* the cards show their defaults, although the document holds elements
C25_Witness ==
  /\ FetchesSettled
  /\ calls = 1
  /\ vcall.data["getIncome"].st = "rejected"
  /\ vcall.data["getExpenses"].st = "fulfilled"
  /\ vcall.data["getUserGoals"].st = "pending"
  /\ ~ui.loading
  /\ ui.popup = FetchDataFailedNotification
  /\ ui.cards = [L \in Lists |-> <<>>]
  /\ docs[Uid] = FilledDoc

\* ------------------------------------------------------------------------
\* Properties of overlapping writes that do not lose each other
\* ------------------------------------------------------------------------
\* a and b are completed adds of distinct records to one list, and their
\* writes are the last two writes to the list
BothAdded(a, b) ==
  /\ a # b
  /\ ops[a].pc = "done" /\ ops[b].pc = "done"
  /\ ops[a].kind = "add" /\ ops[b].kind = "add"
  /\ ops[a].list = ops[b].list
  /\ ops[a].data # ops[b].data
  /\ ops[a].wver = ver[ops[a].list] - 1
  /\ ops[b].wver = ver[ops[b].list]

\* C26: two adds to the same list with distinct records never lose each
\* other: however the two calls interleave, both records are in the stored
\* list after both have completed
C26_AddsKeepEachOther ==
  \A a \in Slots, b \in Slots :
    BothAdded(a, b) =>
      /\ Holds(ListOf(docs[Uid], ops[a].list), ops[a].elem)
      /\ Holds(ListOf(docs[Uid], ops[a].list), ops[b].elem)
      /\ ContainsAdded(getAll(ops[a].list, docs[Uid]).val, ops[a].data)
      /\ ContainsAdded(getAll(ops[a].list, docs[Uid]).val, ops[b].data)

\* two adds of different goals were called in the same millisecond, before
\* either was written, and both goals are stored
C26_Witness ==
  \E a \in Slots, b \in Slots :
    /\ BothAdded(a, b)
    /\ ops[a].list = "goals"
    /\ ops[a].id = ops[b].id
    /\ ListOf(docs[Uid], "goals") = <<ops[a].elem, ops[b].elem>>

\* ------------------------------------------------------------------------
\* Updates and deletes of the lists overlapping each other and updateUser
\* ------------------------------------------------------------------------
\* updateUser up to its await: the merge write is issued
updateUserCall(s, updatedData) ==
  /\ Free(s)
  /\ calls < MaxCalls
  /\ calls' = calls + 1
  /\ ops' = [ops EXCEPT ![s] =
       [pc |-> "called", kind |-> "updateUser", list |-> "profile", id |-> "",
        data |-> updatedData, elem |-> <<>>, snap |-> <<>>,
        before |-> RetNull, rver |-> ver["profile"], wver |-> 0]]
  /\ UNCHANGED <<docs, ver, now, appVars>>

\* the store applies setDoc(ref, updatedData, {merge: true})
updateUserWrite(s) ==
  /\ ops[s].pc = "called"
  /\ ops[s].kind = "updateUser"
  /\ docs' = [docs EXCEPT ![Uid] = setDocMerge(@, ops[s].data)]
  /\ ver' = [ver EXCEPT !["profile"] = @ + 1]
  /\ ops' = [ops EXCEPT ![s].pc = "done", ![s].wver = ver["profile"] + 1]
  /\ UNCHANGED <<now, calls, appVars>>

\* the filled document; the writes to the profile fields are counted too
FieldInit ==
  /\ docs = [u \in Uids |-> IF u = Uid THEN FilledDoc ELSE NoDoc]
  /\ ver = [L \in Lists \cup {"profile"} |-> 0]
  /\ now = 1
  /\ calls = 0
  /\ ops = [s \in Slots |-> Idle]
  /\ NobodyThere

FieldNext ==
  \/ \E s \in Slots, L \in Lists, id \in ViewIds :
       \E updatedData \in Patches(id) : updateCall(s, L, id, updatedData)
  \/ \E s \in Slots : updateWrite(s)
  \/ \E s \in Slots, L \in Lists, id \in ViewIds : deleteCall(s, L, id)
  \/ \E s \in Slots : deleteWrite(s)
  \/ \E s \in Slots : \E updatedData \in ProfileForms :
       updateUserCall(s, updatedData)
  \/ \E s \in Slots : updateUserWrite(s)

FieldSpec == FieldInit /\ [][FieldNext]_vars

\* slot s holds a completed update, delete or updateUser whose write is the
\* latest write to its list or to the profile fields
LatestWrite(s) ==
  /\ ops[s].pc = "done"
  /\ ops[s].kind \in {"update", "delete", "updateUser"}
  /\ ops[s].wver > 0
  /\ ops[s].wver = ver[ops[s].list]

\* the change slot s made is in the document
ChangePresent(s) ==
  IF ops[s].kind = "updateUser"
  THEN HasFieldsOf(docs[Uid].data, ops[s].data)
  ELSE ListOf(docs[Uid], ops[s].list) = Effect(s)

\* C27: edits to different fields of one user's document never lose each
\* other: however an update or delete of one list interleaves with an update
\* or delete of another list or with a profile update, both changes are in
\* the document after both have completed
C27_DifferentFieldsKeepEachOther ==
  \A a \in Slots, b \in Slots :
    (/\ LatestWrite(a)
     /\ LatestWrite(b)
     /\ ops[a].list # ops[b].list)
      => (ChangePresent(a) /\ ChangePresent(b))

\* an update of the income entry and a profile update have both completed:
\* the entry has the new amount and the profile the new picture
C27_Witness ==
  \E a \in Slots, b \in Slots :
    /\ LatestWrite(a) /\ LatestWrite(b)
    /\ ops[a].kind = "update" /\ ops[a].list = "income"
    /\ ops[b].kind = "updateUser"
    /\ Len(ListOf(docs[Uid], "income")) = 1
    /\ ListOf(docs[Uid], "income")[1].amount = 9
    /\ FilledDoc.data.profilePicture # "blob:1"
    /\ docs[Uid].data.profilePicture = "blob:1"
    /\ ListOf(docs[Uid], "expenses") = ListOf(FilledDoc, "expenses")

\* ------------------------------------------------------------------------
\* The handlers of a list view overlapping each other: each slot holds a
\* handler that was started while the others await their backend calls
\* ------------------------------------------------------------------------
\* the handler in slot s has returned or thrown, or none was started there
Finished(s) == ops[s].pc \in {"idle", "ended"}

\* handler h of the view on screen is started in slot s; the effect's fetch
\* is the first handler a mounted view runs
handlerStarts(s, h, id, data) ==
  /\ view = h.view
  /\ currentUser # NoUser
  /\ Finished(s)
  /\ h.name # "fetch" => calls > 0
  /\ calls < MaxCalls
  /\ calls' = calls + 1
  /\ ops' = [ops EXCEPT ![s] = issue(h.fns[1],
       [NoCall EXCEPT !.view = h.view, !.handler = h.name,
                      !.catches = h.catches, !.rest = Tail(h.fns),
                      !.uid = currentUser, !.id = id, !.data = data])]
  /\ UNCHANGED <<docs, ver, now, appVars>>

\* the function of slot s returned ret: the handler calls its next function
awaitReturns(s, ret) ==
  LET c == ops[s]
  IN  ops' = [ops EXCEPT ![s] =
        issue(Head(c.rest), [c EXCEPT !.rest = Tail(c.rest), !.ret = ret,
                                      !.rets = Append(c.rets, ret)])]

\* the store answers the getDoc of slot s from the document as it is now: the
\* answer of a get is on its way to the view; an update or delete goes on to
\* its write, or returns when the user has no document
storeReads(s) ==
  /\ ops[s].pc = "getDoc"
  /\ LET c == ops[s]
         doc == docs[c.uid]
     IN  CASE FnKind(c.fn) = "get" ->
                ops' = [ops EXCEPT ![s].pc = "answered",
                                   ![s].ret = getList(c.fn, doc)]
           [] OTHER ->
                IF doc.exists
                THEN ops' = [ops EXCEPT ![s].pc = "updateDoc",
                                        ![s].snap = ListOf(doc, FnList(c.fn))]
                ELSE awaitReturns(s, Undefined)
  /\ UNCHANGED <<docs, ver, now, calls, appVars>>

\* the store applies the write of slot s: the merge write of an add, or the
\* list an update or delete computed from its read
storeWrites(s) ==
  /\ ops[s].pc \in {"setDoc", "updateDoc"}
  /\ LET c == ops[s]
         L == FnList(c.fn)
     IN  /\ docs' = [docs EXCEPT ![c.uid] =
              CASE FnKind(c.fn) = "add" ->
                     setDocMerge(@, Field(L, arrayUnion(@, L, c.elem)))
                [] FnKind(c.fn) = "update" ->
                     updateDoc(@, Field(L, updateList(L, c.snap, c.id, c.data)))
                [] FnKind(c.fn) = "delete" ->
                     updateDoc(@, Field(L, deleteList(L, c.snap, c.id)))]
         /\ ver' = [ver EXCEPT ![L] = @ + 1]
  /\ awaitReturns(s, Undefined)
  /\ UNCHANGED <<now, calls, appVars>>

\* the answer of the get reaches the handler of slot s, which sets the list
\* of the view: setPurchases(fetched || [])
getReturns(s) ==
  /\ ops[s].pc = "answered"
  /\ ops[s].rest = <<>>
  /\ ops' = [ops EXCEPT ![s].pc = "ended", ![s].outcome = "completed",
                        ![s].rets = Append(@, ops[s].ret)]
  /\ ui' = [ui EXCEPT !.items = IF ops[s].ret.isNull THEN <<>>
                                ELSE ops[s].ret.val]
  /\ UNCHANGED <<docs, ver, now, calls, sessionVars, routeVars, loginVars,
                 vcall, console, unhandled>>

\* the backend call of slot s rejects: the function logs and rethrows, and
\* the error leaves the handler, which has no catch clause
storeRejects(s, e) ==
  /\ ops[s].pc \in {"getDoc", "setDoc", "updateDoc"}
  /\ e = FirebaseError(StoreUnavailable)
  /\ LET r == rethrow(ErrorLabel(ops[s].fn), e)
     IN  /\ ops' = [ops EXCEPT ![s].pc = "ended", ![s].raised = e,
                               ![s].error = r.thrown,
                               ![s].outcome = "escaped"]
         /\ console' = Append(console, r.log)
         /\ unhandled' = r.thrown
  /\ UNCHANGED <<docs, ver, now, calls, sessionVars, routeVars, loginVars,
                 vcall, ui>>

\* the user is signed in at one of the list views
ListInit == ViewInit /\ view \in ListViews

ListNext ==
  \/ \E s \in Slots, v \in ListViews : handlerStarts(s, fetchList(v), "", <<>>)
  \/ \E s \in Slots, v \in ListViews : \E data \in Records(ViewList(v)) :
       handlerStarts(s, handleSubmitAdd(v), "", data)
  \/ \E s \in Slots, v \in ListViews, id \in ViewIds :
       \E updatedData \in Patches(id) :
         handlerStarts(s, handleSubmitEdit(v), id, updatedData)
  \/ \E s \in Slots, v \in ListViews, id \in ViewIds :
       handlerStarts(s, handleDelete(v), id, <<>>)
  \/ \E s \in Slots : storeReads(s)
  \/ \E s \in Slots : storeWrites(s)
  \/ \E s \in Slots : getReturns(s)
  \/ \E s \in Slots : \E e \in BackendErrors : storeRejects(s, e)

ListSpec == ListInit /\ [][ListNext]_vars

\* the list the store holds for the user of the view
StoredList == ListOf(docs[currentUser], ViewList(view))

\* every handler started at the view has finished
AllFinished ==
  /\ view \in ListViews
  /\ calls > 0
  /\ \A s \in Slots : Finished(s)

\* C28: in the purchases, paychecks and goals views, once every handler that
\* was started (submit, delete, initial fetch) has finished, the list the
\* view shows equals the list stored for the current user, in whatever order
\* the handlers' writes and refresh reads complete
C28_ShownIsStored == AllFinished => ui.items = StoredList

\* ------------------------------------------------------------------------
\* Properties of registration across the two backends
\* ------------------------------------------------------------------------
\* the last handler of the Login view was handleRegister and it has returned
RegisterFinished ==
  /\ handler.kind = "register"
  /\ handler.pc \in {"rejected", "mismatch", "failed", "registered"}

\* the authentication service holds an account for the email
AccountExists(email) == \E a \in accounts : a.email = email

\* the store holds a profile document under the uid of the email's account
ProfileExists(email) ==
  \E a \in accounts : a.email = email /\ docs[a.uid].exists

\* C29: registration is all-or-nothing across the two backends: once
\* handleRegister has finished, with success or failure, an authentication
\* account for the email exists if and only if a profile record keyed by that
\* account's uid exists
C29_RegistrationAllOrNothing ==
  RegisterFinished => (AccountExists(handler.email) <=> ProfileExists(handler.email))

\* ------------------------------------------------------------------------
\* The router one render at a time: each <Navigate> followed is a step
\* ------------------------------------------------------------------------
\* the location changed and its route has not been rendered to a view yet
Navigating == ~loading /\ view = "none"

\* one render of <Routes> at the current location: the element matched is
\* shown, or it is a <Navigate> (of ProtectedRoute or of the catch-all route)
\* and the location is replaced by where it points
renderRoutes ==
  /\ Navigating
  /\ LET r == Routes(path, currentUser, hasSeenSplash)
     IN  /\ path' = IF r.to = "" THEN path ELSE r.to
         /\ view' = r.view
         /\ hasSeenSplash' = r.seen
  /\ UNCHANGED <<target, sessionVars, loginVars, storeVars, viewVars>>

\* the visitor opens path p while a view is on screen
visitStarts(p) ==
  /\ ~Navigating
  /\ p # path
  /\ target' = p
  /\ path' = p
  /\ view' = "none"
  /\ UNCHANGED <<hasSeenSplash, sessionVars, loginVars, storeVars, viewVars>>

\* the session changes to user (a sign-in or a sign-out): the callback sets
\* currentUser and the route at the location is rendered again
authStateChanges(user) ==
  /\ ~Navigating
  /\ user # currentUser
  /\ authUser' = user
  /\ handleAuthStateChanged(user)
  /\ view' = "none"
  /\ UNCHANGED <<accounts, path, target, hasSeenSplash, loginVars, storeVars,
                 viewVars>>

\* a page opened at any path, by a visitor signed in or not, with the flag of
\* localStorage set or not; the first callback has run
RouteInit ==
  /\ docs = [u \in Uids |-> NoDoc]
  /\ ver = [L \in Lists |-> 0]
  /\ now = 1
  /\ calls = 0
  /\ ops = [s \in Slots |-> Idle]
  /\ accounts = {[email |-> "a@b.com", password |-> ValidPassword, uid |-> Uid]}
  /\ authUser \in {NoUser, Uid}
  /\ currentUser = authUser
  /\ loading = FALSE
  /\ path \in Paths
  /\ target = path
  /\ view = "none"
  /\ hasSeenSplash \in BOOLEAN
  /\ handler = NoHandler
  /\ signingOut = FALSE
  /\ notification = NoNotification
  /\ NoViewActivity

RouteNext ==
  \/ renderRoutes
  \/ \E p \in Paths : visitStarts(p)
  \/ \E user \in {NoUser, Uid} : authStateChanges(user)

RouteSpec == RouteInit /\ [][RouteNext]_vars

\* every location is rendered: React renders the routes whenever the
\* location or the session changes
RouteLive == RouteInit /\ [][RouteNext]_vars /\ WF_vars(renderRoutes)

\* the views a chain of redirects can end at
RenderedViews == {"Login", "LandingPage"} \cup GuardedViews

\* an upper bound of the number of redirects still to follow from path p:
\* none where a view is shown, one from a guarded path that redirects, two
\* from a path no route matches
RedirectsLeft(p, user, seen) ==
  IF Routes(p, user, seen).to = "" THEN 0
  ELSE IF p \in GuardedPaths THEN 1 ELSE 2

\* this step follows a redirect
RedirectFollowed == Navigating /\ view' = "none"

\* C30: automatic redirects always terminate: from any path (unknown paths
\* included), signed in or not, with the hasSeenSplash flag set or not, the
\* chain of redirects of ProtectedRoute and the catch-all route ends after
\* finitely many steps at a rendered view (login, splash or a guarded view)
\* and never cycles: each redirect leads to a different path from which
\* strictly fewer redirects are left, and a view is rendered in the end
C30_RedirectsTerminate ==
  /\ [][RedirectFollowed =>
          /\ path' # path
          /\ RedirectsLeft(path', currentUser', hasSeenSplash')
               < RedirectsLeft(path, currentUser, hasSeenSplash)]_vars
  /\ Navigating ~> (view \in RenderedViews)

\* a path no route matches was opened by a signed-in visitor who had not seen
\* the splash screen: the catch-all redirect ended at the splash screen; the
\* flag is still unset
C30_Witness ==
  /\ target = "/nowhere"
  /\ path = "/"
  /\ view = "LandingPage"
  /\ currentUser # NoUser
  /\ ~hasSeenSplash

====
